---- MODULE Spec2Model ----
(***************************************************************************)
(* A model of the DAAVFX dashboard tooling: the structural validator and   *)
(* the .set parity validator of validate_export.py, the sample JSON and    *)
(* .set generators of generate_sample_json.py, the massive .set generators *)
(* of generate_massive_setfile.py and generate_massive_setfile_v19.py, and *)
(* the export code generator of generate_full_export.py.                   *)
(*                                                                         *)
(* Representation.  A Python str is a TLA+ string.  A Python list is a     *)
(* sequence.  A Python dict is a function whose domain is its key set.  A  *)
(* Python scalar held in a JSON document is a record [t, v]: t is the      *)
(* Python type name and v the value (a float is kept as the text str()     *)
(* prints for it).  A text is the sequence of its lines, i.e. what         *)
(* '\n'.join consumes and str.splitlines produces.  A float that the       *)
(* generators compute is kept as an integer number of fixed fractions      *)
(* (hundredths, or units of 0.00001 where the v19 generator rounds).  The  *)
(* bytes of a file are a sequence of integers 0..255.                      *)
(***************************************************************************)
EXTENDS Integers, Sequences, FiniteSets, TLC

\* ------------------------------------------------------------------------
\* Python primitives
\* ------------------------------------------------------------------------

Digit(d) == SubSeq("0123456789", d + 1, d + 1)

RECURSIVE Decimal(_)
\* str(n) / f"{n}" of a non-negative int
Decimal(n) == IF n < 10 THEN Digit(n) ELSE Decimal(n \div 10) \o Digit(n % 10)

\* str(x) of the float x = h / 100: the shortest decimal text, at least one
\* fractional digit
PyFloatStr(h) ==
    Decimal(h \div 100) \o "." \o
        (IF h % 100 = 0 THEN "0"
         ELSE IF h % 10 = 0 THEN Digit((h % 100) \div 10)
         ELSE Digit((h % 100) \div 10) \o Digit(h % 10))

\* f"{x:.1f}" of the float x = h / 100 (h a multiple of 10 in every use)
Fmt1f(h) == Decimal(h \div 100) \o "." \o Digit((h % 100) \div 10)

\* d.get(k, default)
DictGet(d, k, default) == IF k \in DOMAIN d THEN d[k] ELSE default

\* the elements of a list, as a set
Range(s) == {s[i] : i \in 1..Len(s)}

RECURSIVE Flatten(_)
\* lines.extend(...) over a list of lists, in order
Flatten(ss) == IF ss = <<>> THEN <<>> ELSE Head(ss) \o Flatten(Tail(ss))

\* the characters str.strip() removes that a line of a text can hold (a line
\* produced by splitlines holds no line break)
Whitespace == {" ", "\t"}

CharAt(s, i) == SubSeq(s, i, i)

RECURSIVE FirstNonSpace(_, _)
\* the index of the first non-whitespace character at or after i; Len(s) + 1
\* when there is none
FirstNonSpace(s, i) ==
    IF i > Len(s) THEN i
    ELSE IF CharAt(s, i) \in Whitespace THEN FirstNonSpace(s, i + 1) ELSE i

RECURSIVE LastNonSpace(_, _)
\* the index of the last non-whitespace character at or before i; 0 when
\* there is none
LastNonSpace(s, i) ==
    IF i < 1 THEN 0
    ELSE IF CharAt(s, i) \in Whitespace THEN LastNonSpace(s, i - 1) ELSE i

\* s.strip()
Strip(s) ==
    LET a == FirstNonSpace(s, 1)
    IN  IF a > Len(s) THEN "" ELSE SubSeq(s, a, LastNonSpace(s, Len(s)))

\* s.startswith(c) for a one-character c
StartsWith(s, c) == Len(s) >= 1 /\ CharAt(s, 1) = c

RECURSIVE FindLast(_, _, _)
\* the index of the last occurrence of the character c at or after i; 0 when
\* there is none (s.rsplit(c, 1))
FindLast(s, c, i) ==
    IF i > Len(s) THEN 0
    ELSE LET later == FindLast(s, c, i + 1)
         IN  IF later # 0 THEN later ELSE IF CharAt(s, i) = c THEN i ELSE 0

RECURSIVE Find(_, _, _)
\* the index of the first occurrence of the character c at or after i; 0 when
\* there is none (c in s, s.split(c, 1))
Find(s, c, i) ==
    IF i > Len(s) THEN 0
    ELSE IF CharAt(s, i) = c THEN i ELSE Find(s, c, i + 1)

UpperToLower ==
    [A |-> "a", B |-> "b", C |-> "c", D |-> "d", E |-> "e", F |-> "f",
     G |-> "g", H |-> "h", I |-> "i", J |-> "j", K |-> "k", L |-> "l",
     M |-> "m", N |-> "n", O |-> "o", P |-> "p", Q |-> "q", R |-> "r",
     S |-> "s", T |-> "t", U |-> "u", V |-> "v", W |-> "w", X |-> "x",
     Y |-> "y", Z |-> "z"]

RECURSIVE Lower(_)
\* s.lower()
Lower(s) ==
    IF s = "" THEN ""
    ELSE DictGet(UpperToLower, CharAt(s, 1), CharAt(s, 1))
             \o Lower(SubSeq(s, 2, Len(s)))

\* ------------------------------------------------------------------------
\* validate_export.py: naming tables and expected .set keys
\* ------------------------------------------------------------------------

\* a table that gives Stopper the letter of Scalper
LOGIC_ABBREVIATIONS_ONE_LETTER ==
    [Power |-> "P", Repower |-> "R", Scalper |-> "S", Stopper |-> "S",
     STO |-> "STO", SCA |-> "SCA", RPO |-> "RPO"]

LOGIC_ABBREVIATIONS ==
    [Power |-> "P", Repower |-> "R", Scalper |-> "S", Stopper |-> "ST",
     STO |-> "STO", SCA |-> "SCA", RPO |-> "RPO"]

\* the table with a prefix for engine A too
ENGINE_PREFIXES_ALL == [A |-> "A", B |-> "B", C |-> "C"]

ENGINE_PREFIXES == [A |-> "", B |-> "B", C |-> "C"]

get_suffix(engine_id, group, logic_name) ==
    LET prefix == DictGet(ENGINE_PREFIXES, engine_id, "")
        logic  == DictGet(LOGIC_ABBREVIATIONS, logic_name, "P")
    IN  prefix \o logic \o Decimal(group)

\* the short name without the prefix of the engine
get_short_of_logic(engine_id, logic_name) ==
    DictGet(LOGIC_ABBREVIATIONS, logic_name, "P")

get_short(engine_id, logic_name) ==
    LET prefix == DictGet(ENGINE_PREFIXES, engine_id, "")
        logic  == DictGet(LOGIC_ABBREVIATIONS, logic_name, "P")
    IN  prefix \o logic

\* the "Non-Power logics have extra fields" condition
KeysNonPower(logic_name) == Lower(logic_name) # "power"

\* the condition with the test for group 1 lost
KeysGroupOneAlways(group) == TRUE

\* the "Group 1 has trigger fields" condition
KeysGroupOne(group) == group = 1

generate_expected_set_keys(engine_id, group, logic_name) ==
    LET suffix == get_suffix(engine_id, group, logic_name)
        short == get_short(engine_id, logic_name)
        G == "gInput_G" \o Decimal(group)
    IN  << "gInput_Initial_loT_" \o suffix,
           "gInput_Mult_" \o suffix,
           "gInput_Grid_" \o suffix,
           "gInput_Trail_" \o suffix,
           "gInput_TrailValue_" \o suffix,
           "gInput_Trail_Start_" \o suffix,
           "gInput_TrailStep_" \o suffix,
           "gInput_TrailStepMethod_" \o suffix,
           "gInput_TrailStepMode_" \o suffix,
           "gInput_TrailStepCycle_" \o suffix,
           "gInput_TrailStepBalance_" \o suffix,
           "gInput_CloseTargets_" \o suffix,
           "gInput_" \o suffix \o "_OrderCountReference",
           "gInput_ResetLotOnRestart_" \o suffix,
           G \o "_UseTP_" \o short,
           G \o "_TP_Mode_" \o short,
           G \o "_TP_Value_" \o short,
           G \o "_UseSL_" \o short,
           G \o "_SL_Mode_" \o short,
           G \o "_SL_Value_" \o short,
           G \o "_" \o short \o "_ReverseEnabled",
           G \o "_" \o short \o "_HedgeEnabled",
           G \o "_Scale_" \o short \o "_Reverse",
           G \o "_Scale_" \o short \o "_Hedge",
           G \o "_" \o short \o "_ReverseReference",
           G \o "_" \o short \o "_HedgeReference",
           "gInput_ClosePartial_" \o suffix,
           "gInput_ClosePartialCycle_" \o suffix,
           "gInput_ClosePartialMode_" \o suffix,
           "gInput_ClosePartialBalance_" \o suffix,
           "gInput_ClosePartialTrailStepMode_" \o suffix >>
        \o (IF KeysNonPower(logic_name)
            THEN << "gInput_StartLevel_" \o suffix, "gInput_LastLot_" \o suffix >>
            ELSE << >>)
        \o (IF KeysGroupOne(group)
            THEN << "gInput_G1_TriggerType_" \o short,
                    "gInput_G1_TriggerBars_" \o short,
                    "gInput_G1_TriggerMinutes_" \o short >>
            ELSE << >>)

generate_group_level_keys(group) ==
    << "gInput_Group" \o Decimal(group) \o "_ReverseMode",
       "gInput_Group" \o Decimal(group) \o "_HedgeMode",
       "gInput_Group" \o Decimal(group) \o "_HedgeReference",
       "gInput_Group" \o Decimal(group) \o "_EntryDelayBars" >>

\* ------------------------------------------------------------------------
\* generate_massive_setfile.py
\* ------------------------------------------------------------------------

GROUPS == 15
ENGINES == <<"A", "B", "C">>
LOGICS == <<"Power", "Repower", "Scalp", "Stopper", "STO", "SCA", "RPO">>
DIRECTIONS == <<"Buy", "Sell">>

\* a table of first letters
LOGIC_SUFFIX_FIRST_LETTER ==
    [Power |-> "P", Repower |-> "R", Scalp |-> "S", Stopper |-> "S",
     STO |-> "S", SCA |-> "S", RPO |-> "R"]

LOGIC_SUFFIX ==
    [Power |-> "P", Repower |-> "R", Scalp |-> "S", Stopper |-> "T",
     STO |-> "O", SCA |-> "C", RPO |-> "X"]

\* section 4 of generate_logic_inputs: the five lines of one trail step
TrailStepInputs(prefix, group_num, step) ==
    << prefix \o "_TrailStep" \o Decimal(step) \o "="
           \o Fmt1f(500 + step * 500 + group_num * 50),
       prefix \o "_TrailStepMethod" \o Decimal(step) \o "=0",
       prefix \o "_TrailStepMode" \o Decimal(step) \o "=0",
       prefix \o "_TrailStepCycle" \o Decimal(step) \o "=" \o Decimal(step),
       prefix \o "_TrailStepBalance" \o Decimal(step) \o "=0.0" >>

\* section 11 of generate_logic_inputs: the eight lines of one partial close
PartialInputs(prefix, partial) ==
    << prefix \o "_PartialEnabled" \o Decimal(partial) \o "=0",
       prefix \o "_PartialCycle" \o Decimal(partial) \o "=" \o Decimal(partial + 1),
       prefix \o "_PartialMode" \o Decimal(partial) \o "=1",
       prefix \o "_PartialBalance" \o Decimal(partial) \o "=1",
       prefix \o "_PartialTrailMode" \o Decimal(partial) \o "=0",
       prefix \o "_PartialTrigger" \o Decimal(partial) \o "=0",
       prefix \o "_PartialProfitThreshold" \o Decimal(partial) \o "=0.0",
       prefix \o "_PartialHours" \o Decimal(partial) \o "=0" >>

generate_logic_inputs(group_num, engine, logic, direction) ==
    LET prefix == "gInput_" \o Decimal(group_num) \o "_" \o engine
                      \o LOGIC_SUFFIX[logic] \o "_" \o direction
        is_power == logic = "Power"
        is_buy == direction = "Buy"
    IN  << prefix \o "_Enabled=1",
           IF is_buy THEN prefix \o "_AllowBuy=1" ELSE prefix \o "_AllowBuy=0",
           IF is_buy THEN prefix \o "_AllowSell=0" ELSE prefix \o "_AllowSell=1",
           prefix \o "_InitialLot=0.01",
           prefix \o "_LastLot=0.10",
           prefix \o "_Multiplier=1.20",
           prefix \o "_Grid=" \o Decimal(100 + group_num * 20),
           prefix \o "_GridBehavior=0",
           prefix \o "_TrailMethod=0",
           prefix \o "_TrailValue=" \o PyFloatStr(500 + group_num * 50),
           prefix \o "_TrailStart=" \o PyFloatStr(group_num * 200),
           prefix \o "_TrailStep=" \o PyFloatStr(500 + group_num * 25) >>
        \o Flatten([step \in 1..7 |-> TrailStepInputs(prefix, group_num, step)])
        \o
        << prefix \o "_UseTP=1",
           prefix \o "_TakeProfit=" \o PyFloatStr(5000 + group_num * 1000),
           prefix \o "_TPMode=0",
           prefix \o "_UseSL=1",
           prefix \o "_StopLoss=" \o PyFloatStr(3000 + group_num * 500),
           prefix \o "_SLMode=0",
           prefix \o "_BreakEvenMode=0",
           prefix \o "_BreakEvenActivation=" \o PyFloatStr(2000 + group_num * 200),
           prefix \o "_BreakEvenLock=" \o PyFloatStr(1000 + group_num * 100),
           prefix \o "_BreakEvenTrail=0",
           prefix \o "_ProfitTrailEnabled=0",
           prefix \o "_ProfitTrailPeakDrop=50.0",
           prefix \o "_ProfitTrailLock=30.0",
           prefix \o "_ProfitTrailCloseOnTrigger=0",
           prefix \o "_ProfitTrailUseBreakEven=0",
           prefix \o "_TriggerType=0",
           prefix \o "_TriggerBars=0",
           prefix \o "_TriggerMinutes=0",
           prefix \o "_TriggerPips=0.0",
           prefix \o "_ReverseReference=0",
           prefix \o "_HedgeReference=0",
           prefix \o "_OrderCountRefLogic=0",
           prefix \o "_ReverseScale=1.0",
           prefix \o "_HedgeScale=1.0",
           prefix \o "_ReverseEnabled=0",
           prefix \o "_HedgeEnabled=0",
           prefix \o "_CloseTargets=0",
           prefix \o "_OrderCountRef=0",
           IF ~is_power THEN prefix \o "_StartLevel=" \o Decimal(group_num)
                        ELSE prefix \o "_StartLevel=0",
           prefix \o "_ResetLotOnRestart=1",
           prefix \o "_RestartPolicy=0" >>
        \o Flatten([partial \in 1..4 |-> PartialInputs(prefix, partial)])

generate_global_inputs ==
    << "gInput_MagicNumber=777", "gInput_MagicNumberBuy=777",
       "gInput_MagicNumberSell=888", "gInput_EnableLogs=0",
       "gInput_AllowBuy=1", "gInput_AllowSell=1", "gInput_MaxSlippage=3",
       "gInput_MaxSpread=50", "gInput_MaxOrders=100", "gInput_MaxDailyLoss=0",
       "gInput_MaxDrawdown=0", "gInput_AutoCompounding=0",
       "gInput_CompoundingPercent=0.0", "gInput_RiskPercent=1.0",
       "gInput_LotSize=0.01", "gInput_UseMoneyManagement=0",
       "gInput_FixedLot=0.01",
       "gInput_TradeMonday=1", "gInput_TradeTuesday=1",
       "gInput_TradeWednesday=1", "gInput_TradeThursday=1",
       "gInput_TradeFriday=1", "gInput_TradeSaturday=0",
       "gInput_TradeSunday=0", "gInput_StartHour=0", "gInput_EndHour=24",
       "gInput_UseSessionFilter=0", "gInput_SessionStart=0",
       "gInput_SessionEnd=24",
       "gInput_UseTrendFilter=0", "gInput_TrendPeriod=14",
       "gInput_UseVolatilityFilter=0", "gInput_VolatilityPeriod=20",
       "gInput_UseNewsFilter=0", "gInput_NewsImpact=3",
       "gInput_MinsBeforeNews=30", "gInput_MinsAfterNews=30",
       "gInput_UseVirtualPending=0", "gInput_VirtualPendingPips=10.0",
       "gInput_OrderComment=DAAVILEFX", "gInput_RequireLicense=0",
       "gInput_LicenseServer=https://license.daavfx.com",
       "gInput_ShowUI=1", "gInput_ShowTrails=0", "gInput_EnableDebug=0",
       "gInput_LogLevel=1", "gInput_SaveStats=1",
       "gInput_StatsFile=daavilefx_stats.csv" >>

\* datetime.now().strftime('%Y-%m-%d %H:%M:%S') at the time of the run: the
\* clock reading only ever lands in a ';' comment line
NowStamp == "2026-01-01 00:00:00"

\* the lines one (group, engine, logic, direction) iteration appends: the
\* logic inputs and the blank line after them
LogicDirectionBlock(group, engine, logic, direction) ==
    generate_logic_inputs(group, engine, logic, direction) \o << "" >>

\* the lines one iteration of the group loop appends
GroupBlock(group) ==
    << "; Group " \o Decimal(group),
       "; ===========================================" >>
    \o Flatten([e \in 1..Len(ENGINES) |->
         Flatten([l \in 1..Len(LOGICS) |->
           Flatten([d \in 1..Len(DIRECTIONS) |->
             LogicDirectionBlock(group, ENGINES[e], LOGICS[l], DIRECTIONS[d])])])])
    \o << "" >>

RECURSIVE SumSeq(_)
SumSeq(s) == IF s = <<>> THEN 0 ELSE Head(s) + SumSeq(Tail(s))

\* total_inputs after the loops: the sum of len(logic_inputs)
total_inputs ==
    SumSeq(Flatten([g \in 1..GROUPS |->
      Flatten([e \in 1..Len(ENGINES) |->
        Flatten([l \in 1..Len(LOGICS) |->
          [d \in 1..Len(DIRECTIONS) |->
             Len(generate_logic_inputs(g, ENGINES[e], LOGICS[l], DIRECTIONS[d]))]])])]))

\* the list `lines` that generate_massive_setfile joins with '\n'
generate_massive_setfile ==
    LET n_ld == GROUPS * Len(ENGINES) * Len(LOGICS) * Len(DIRECTIONS)
    IN  << "; DAAVILEFX MASSIVE CONFIGURATION SETFILE",
           "; Generated: " \o NowStamp,
           "; Version: 18.0 MASSIVE",
           "; Platform: MT4",
           ";",
           "; Structure: " \o Decimal(GROUPS) \o " groups x "
               \o Decimal(Len(ENGINES)) \o " engines x "
               \o Decimal(Len(LOGICS)) \o " logics x "
               \o Decimal(Len(DIRECTIONS)) \o " directions",
           "; Total Logic-Directions: " \o Decimal(n_ld),
           "; Fields per Logic: 88",
           "; Total Logic Inputs: " \o Decimal(n_ld * 88),
           "; Global Inputs: ~50",
           "; GRAND TOTAL: ~55,500 inputs",
           "",
           "; ===========================================",
           "; GLOBAL SETTINGS",
           "; ===========================================",
           "" >>
        \o generate_global_inputs
        \o << "",
              "; ===========================================",
              "; LOGIC CONFIGURATIONS (630 logic-directions)",
              "; ===========================================",
              "" >>
        \o Flatten([g \in 1..GROUPS |-> GroupBlock(g)])
        \o << "; ===========================================",
              "; END OF CONFIGURATION",
              "; Total Inputs Generated: "
                  \o Decimal(total_inputs + Len(generate_global_inputs)),
              "; ===========================================" >>


\* ------------------------------------------------------------------------
\* generate_massive_setfile_v19.py: the logic inputs with variations
\* ------------------------------------------------------------------------

\* the numbers random.random() returns after random.seed(19), in hundredths
RandomTable ==
    << 67, 78, 52, 51, 39, 99, 28, 14, 26, 26, 32, 26, 10, 32, 31, 56, 20, 7, 20, 54,
       38, 73, 80, 41, 9, 72, 75, 39, 65, 29, 91, 83, 79, 95, 23, 54, 73, 80, 39, 13,
       62, 10, 70, 0, 45, 47, 11, 48, 50, 36, 89, 86, 89, 24, 2, 37, 11, 70, 26, 12,
       28, 40, 73, 46, 30, 67, 4, 20, 68, 75, 10, 6, 50, 65, 1, 43, 27, 8, 17, 28,
       46, 11, 62, 87, 68, 6, 64, 63, 0, 38, 65, 95, 92, 56, 58, 95, 21, 50, 6, 77,
       65, 21, 19, 52, 75, 13, 32, 51, 26, 88, 72, 95, 64, 68, 28, 50, 42, 47, 6, 84,
       15, 45, 93, 51, 86, 26, 46, 37, 32, 36, 44, 84, 97, 9, 66, 52, 41, 4, 36, 31,
       36, 59, 36, 29, 27, 97, 39, 97, 16, 66, 55, 70, 51, 87, 58, 4, 68, 61, 24, 73,
       83, 27, 14, 28, 58, 44, 7, 44, 54, 57, 35, 78, 67, 25, 34, 92, 22, 44, 30, 58,
       79, 12, 19, 6, 12, 52, 48, 94, 45, 52, 2, 22, 30, 24, 78, 41, 13, 53, 15, 18,
       60, 8, 75, 43, 6, 67, 96, 73, 84, 93, 27, 48, 74, 39, 96, 42, 2, 9, 42, 1,
       60, 99, 93, 98, 24, 18, 7, 93, 2, 7, 66, 94, 53, 6, 3, 81, 68, 31, 98, 28 >>

\* the i-th number the module-level generator gives after the seed
RandomUnit(i) == RandomTable[((i - 1) % Len(RandomTable)) + 1]

\* random.uniform(a, b) = a + (b - a) * random() on the draw u; a and b in
\* units of 0.00001
Uniform(a, b, u) == a + ((b - a) * u) \div 100

\* random.randint(a, b) on the draw u
RandInt(a, b, u) == a + (u * (b - a + 1)) \div 100

RECURSIVE Pow10(_)
Pow10(d) == IF d = 0 THEN 1 ELSE 10 * Pow10(d - 1)

\* Decimal(n) with zeros in front up to d digits
ZeroPad(n, d) == IF d <= 1 \/ n >= Pow10(d - 1) THEN Decimal(n)
                 ELSE SubSeq("0000", 1, d - Len(Decimal(n))) \o Decimal(n)

\* f"{x:.<d>f}" of x >= 0 in units of 0.00001: rounded to d digits, a tie to
\* the even digit
FmtFixed(x, d) ==
    LET unit == Pow10(5 - d)
        q == x \div unit
        r == x % unit
        n == IF 2 * r > unit \/ (2 * r = unit /\ q % 2 = 1) THEN q + 1 ELSE q
    IN  Decimal(n \div Pow10(d)) \o "." \o ZeroPad(n % Pow10(d), d)

\* the base values of the three group ranges
BaseValues(group_num) ==
    IF group_num <= 5
    THEN [base_lot |-> 2000, max_lot |-> 20000, grid_base |-> 10000000,
          trail_base |-> 500000]
    ELSE IF group_num <= 10
    THEN [base_lot |-> 3000, max_lot |-> 30000, grid_base |-> 15000000,
          trail_base |-> 750000]
    ELSE [base_lot |-> 5000, max_lot |-> 50000, grid_base |-> 20000000,
          trail_base |-> 1000000]

\* generate_logic_inputs of v19, called when the generator has given `state`
\* numbers: the list it returns and the count of numbers given after the call.
\* R(k) is the k-th number the call draws, in the order of its statements
generate_logic_inputs_v19(group_num, engine, logic, direction, state) ==
    LET prefix == "gInput_" \o Decimal(group_num) \o "_" \o engine
                      \o LOGIC_SUFFIX[logic] \o "_" \o direction
        is_power == logic = "Power"
        is_buy == direction = "Buy"
        base == BaseValues(group_num)
        R(k) == RandomUnit(state + k)
        lot_variation == Uniform(0 - 500, 500, R(1))
        grid_variation == Uniform(0 - 1000000, 1000000, R(2))
        trail_variation == Uniform(0 - 100000, 100000, R(3))
        tp_variation == Uniform(0 - 500000, 500000, R(20))
        sl_variation == Uniform(0 - 300000, 300000, R(21))
        be_variation == Uniform(0 - 200000, 200000, R(22))
        \* the draws before the partial closes: StartLevel draws for a
        \* logic other than Power only
        o == IF is_power THEN 40 ELSE 41
        TrailSteps(step) ==
            LET k == 6 + 2 * (step - 1)
                step_value == base.trail_base + step * 500000 + group_num * 50000
                                  + Uniform(0 - 200000, 200000, R(k))
            IN  << prefix \o "_TrailStep" \o Decimal(step) \o "=" \o FmtFixed(step_value, 1),
                   prefix \o "_TrailStepMethod" \o Decimal(step) \o "=0",
                   prefix \o "_TrailStepMode" \o Decimal(step) \o "=0",
                   prefix \o "_TrailStepCycle" \o Decimal(step) \o "=" \o Decimal(step),
                   prefix \o "_TrailStepBalance" \o Decimal(step) \o "="
                       \o FmtFixed(Uniform(0, 10000000, R(k + 1)), 1) >>
        Partials(partial) ==
            LET k == o + 2 + 8 * (partial - 1)
                n == Decimal(partial)
            IN  << prefix \o "_PartialEnabled" \o n \o "="
                       \o (IF R(k + 1) > 60 THEN "1" ELSE "0"),
                   prefix \o "_PartialCycle" \o n \o "="
                       \o Decimal(partial + RandInt(0, 2, R(k + 2))),
                   prefix \o "_PartialMode" \o n \o "=" \o Decimal(RandInt(0, 2, R(k + 3))),
                   prefix \o "_PartialBalance" \o n \o "=" \o Decimal(RandInt(0, 2, R(k + 4))),
                   prefix \o "_PartialTrailMode" \o n \o "=" \o Decimal(RandInt(0, 1, R(k + 5))),
                   prefix \o "_PartialTrigger" \o n \o "=" \o Decimal(RandInt(0, 2, R(k + 6))),
                   prefix \o "_PartialProfitThreshold" \o n \o "="
                       \o FmtFixed(Uniform(0, 2000000, R(k + 7)), 1),
                   prefix \o "_PartialHours" \o n \o "=" \o Decimal(RandInt(0, 48, R(k + 8))) >>
    IN  [random_state |-> state + o + 2 + 32,
         inputs |->
           << prefix \o "_Enabled=1",
              IF is_buy THEN prefix \o "_AllowBuy=1" ELSE prefix \o "_AllowBuy=0",
              IF is_buy THEN prefix \o "_AllowSell=0" ELSE prefix \o "_AllowSell=1",
              prefix \o "_InitialLot=" \o FmtFixed(base.base_lot + lot_variation, 2),
              prefix \o "_LastLot=" \o FmtFixed(base.max_lot + lot_variation * 2, 2),
              prefix \o "_Multiplier=" \o FmtFixed(120000 + group_num * 2000, 2),
              prefix \o "_Grid="
                  \o FmtFixed(base.grid_base + group_num * 2000000 + grid_variation, 1),
              prefix \o "_GridBehavior=0",
              prefix \o "_TrailMethod=0",
              prefix \o "_TrailValue="
                  \o FmtFixed(base.trail_base + group_num * 50000 + trail_variation, 1),
              prefix \o "_TrailStart="
                  \o FmtFixed(group_num * 200000 + Uniform(0, 200000, R(4)), 1),
              prefix \o "_TrailStep="
                  \o FmtFixed(base.trail_base + group_num * 25000
                                  + Uniform(0 - 50000, 50000, R(5)), 1) >>
           \o Flatten([step \in 1..7 |-> TrailSteps(step)])
           \o
           << prefix \o "_UseTP=1",
              prefix \o "_TakeProfit="
                  \o FmtFixed(5000000 + group_num * 1000000 + tp_variation, 1),
              prefix \o "_TPMode=0",
              prefix \o "_UseSL=1",
              prefix \o "_StopLoss="
                  \o FmtFixed(3000000 + group_num * 500000 + sl_variation, 1),
              prefix \o "_SLMode=0",
              prefix \o "_BreakEvenMode=0",
              prefix \o "_BreakEvenActivation="
                  \o FmtFixed(2000000 + group_num * 200000 + be_variation, 1),
              prefix \o "_BreakEvenLock="
                  \o FmtFixed(1000000 + group_num * 100000 + be_variation \div 2, 1),
              prefix \o "_BreakEvenTrail=0",
              prefix \o "_ProfitTrailEnabled=" \o (IF R(23) > 70 THEN "1" ELSE "0"),
              prefix \o "_ProfitTrailPeakDrop=" \o FmtFixed(Uniform(4000000, 6000000, R(24)), 1),
              prefix \o "_ProfitTrailLock=" \o FmtFixed(Uniform(2500000, 3500000, R(25)), 1),
              prefix \o "_ProfitTrailCloseOnTrigger=" \o Decimal(RandInt(0, 1, R(26))),
              prefix \o "_ProfitTrailUseBreakEven=" \o Decimal(RandInt(0, 1, R(27))),
              prefix \o "_TriggerType=" \o Decimal(RandInt(0, 2, R(28))),
              prefix \o "_TriggerBars=" \o Decimal(RandInt(0, 3, R(29))),
              prefix \o "_TriggerMinutes=" \o Decimal(RandInt(0, 5, R(30))),
              prefix \o "_TriggerPips=" \o FmtFixed(Uniform(0, 500000, R(31)), 1),
              prefix \o "_ReverseReference=" \o Decimal(RandInt(0, 3, R(32))),
              prefix \o "_HedgeReference=" \o Decimal(RandInt(0, 3, R(33))),
              prefix \o "_OrderCountRefLogic=" \o Decimal(RandInt(0, 5, R(34))),
              prefix \o "_ReverseScale=" \o FmtFixed(Uniform(80000, 120000, R(35)), 1),
              prefix \o "_HedgeScale=" \o FmtFixed(Uniform(80000, 120000, R(36)), 1),
              prefix \o "_ReverseEnabled=" \o Decimal(RandInt(0, 1, R(37))),
              prefix \o "_HedgeEnabled=" \o Decimal(RandInt(0, 1, R(38))),
              prefix \o "_CloseTargets=" \o Decimal(RandInt(0, 3, R(39))),
              prefix \o "_OrderCountRef=" \o Decimal(RandInt(0, 10, R(40))),
              IF ~is_power
              THEN prefix \o "_StartLevel=" \o Decimal(group_num + RandInt(0, 2, R(41)))
              ELSE prefix \o "_StartLevel=0",
              prefix \o "_ResetLotOnRestart=" \o Decimal(RandInt(0, 1, R(o + 1))),
              prefix \o "_RestartPolicy=" \o Decimal(RandInt(0, 2, R(o + 2))) >>
           \o Flatten([partial \in 1..4 |-> Partials(partial)])]

\* ------------------------------------------------------------------------
\* validate_export.py: the .set decoder
\* ------------------------------------------------------------------------

\* the loop body of parse_set_file for one line: <<key.strip(), value.strip()>>
\* when it stores an entry (line.split('=', 1)), << >> when the line is
\* skipped
ParseLine(raw) ==
    LET line == Strip(raw)
    IN  IF line = "" \/ StartsWith(line, ";") THEN << >>
        ELSE LET p == Find(line, "=", 1)
             IN  IF p = 0 THEN << >>
                 ELSE << Strip(SubSeq(line, 1, p - 1)),
                         Strip(SubSeq(line, p + 1, Len(line))) >>

\* the empty dict
EmptyDict == [k \in {} |-> ""]

\* a.update(b): the entries of b replace those of a under the same key (the
\* @@ with the empty dict leaves the value unchanged: it makes TLC build the
\* dict once instead of re-deriving it at every lookup)
Update(a, b) ==
    [k \in (DOMAIN a) \cup (DOMAIN b) |-> IF k \in DOMAIN b THEN b[k] ELSE a[k]]
        @@ EmptyDict

RECURSIVE AssignKeepFirst(_, _, _)
\* the assignments guarded by `if key not in values`: the first value stays
AssignKeepFirst(E, lo, hi) ==
    IF lo > hi THEN EmptyDict
    ELSE IF lo = hi THEN [k \in {E[lo][1]} |-> E[lo][2]]
    ELSE LET mid == (lo + hi) \div 2
         IN  Update(AssignKeepFirst(E, mid + 1, hi), AssignKeepFirst(E, lo, mid))

RECURSIVE Assign(_, _, _)
\* the dict left by the assignments values[key] = value for the entries
\* lo..hi of E, in order, started on the empty dict.  Assigning one entry after
\* the other is an update by each, and update is associative, so the run is
\* split in two halves: the recursion stays shallow on a text of any length
Assign(E, lo, hi) ==
    IF lo > hi THEN EmptyDict
    ELSE IF lo = hi THEN [k \in {E[lo][1]} |-> E[lo][2]]
    ELSE LET mid == (lo + hi) \div 2
         IN  Update(Assign(E, lo, mid), Assign(E, mid + 1, hi))

\* the for loop of parse_set_file over text.splitlines()
ParseLines(lines) ==
    LET parsed == [i \in 1..Len(lines) |-> ParseLine(lines[i])]
        E == SelectSeq(parsed, LAMBDA e : e # << >>)
    IN  Assign(E, 1, Len(E))

\* ------------------------------------------------------------------------
\* generate_full_export.py: the MQL4 code that writes the export
\* ------------------------------------------------------------------------

\* the fields of the object that the code of trail_step_extended writes for
\* step i, each with the input it is taken from
TrailStepExtended(i, logic_suffix, group_num) ==
    LET n == Decimal(i)
        tail == n \o "_" \o logic_suffix \o Decimal(group_num)
    IN  << << "trail_step_" \o n, "gInput_TrailStep" \o tail >>,
           << "trail_step_method_" \o n, "gInput_TrailStepMethod" \o tail >>,
           << "trail_step_mode_" \o n, "gInput_TrailStepMode" \o tail >>,
           << "trail_step_cycle_" \o n, "gInput_TrailStepCycle" \o tail >>,
           << "trail_step_balance_" \o n, "gInput_TrailStepBalance" \o tail >> >>

\* the same for close_partial_extended
ClosePartialExtended(i, logic_suffix, group_num) ==
    LET n == Decimal(i)
        tail == n \o "_" \o logic_suffix \o Decimal(group_num)
    IN  << << "close_partial_" \o n, "gInput_ClosePartial" \o tail >>,
           << "close_partial_cycle_" \o n, "gInput_ClosePartialCycle" \o tail >>,
           << "close_partial_mode_" \o n, "gInput_ClosePartialMode" \o tail >>,
           << "close_partial_balance_" \o n, "gInput_ClosePartialBalance" \o tail >> >>

\* generate_logic_export: the code it returns writes one object; the model
\* keeps the fields of that object in the order of the code, each with the
\* literal or the input its value is taken from, and the comma after it
generate_logic_export(engine_id, logic_name, logic_suffix, group_num, is_last_logic, logic_short) ==
    LET g == Decimal(group_num)
        sfx == "_" \o logic_suffix \o g
        grp == "gInput_G" \o g \o "_"
        trigger_code ==
            IF group_num = 1
            THEN << << "trigger_type", "gInput_G1_TriggerType_" \o logic_short >>,
                    << "trigger_bars", "gInput_G1_TriggerBars_" \o logic_short >>,
                    << "trigger_minutes", "gInput_G1_TriggerMinutes_" \o logic_short >>,
                    << "trigger_pips", "gInput_G1_TriggerPips_" \o logic_short >> >>
            ELSE << >>
    IN  [comma |-> IF is_last_logic THEN "" ELSE ",",
         fields |->
           << << "logic_name", logic_name >>,
              << "logic_id", engine_id \o "_" \o logic_name \o "_G" \o g >>,
              << "enabled", "true" >>,
              << "initial_lot", "gInput_Initial_loT" \o sfx >>,
              << "multiplier", "gInput_Mult" \o sfx >>,
              << "grid", "gInput_Grid" \o sfx >>,
              << "trail_method", "gInput_Trail" \o sfx >>,
              << "trail_value", "gInput_TrailValue" \o sfx >>,
              << "trail_start", "gInput_Trail_Start" \o sfx >>,
              << "trail_step", "gInput_TrailStep" \o sfx >>,
              << "trail_step_method", "gInput_TrailStepMethod" \o sfx >>,
              << "trail_step_mode", "gInput_TrailStepMode" \o sfx >>,
              << "trail_step_cycle", "gInput_TrailStepCycle" \o sfx >>,
              << "trail_step_balance", "gInput_TrailStepBalance" \o sfx >> >>
           \o Flatten([k \in 1..6 |-> TrailStepExtended(k + 1, logic_suffix, group_num)])
           \o << << "close_partial", "gInput_ClosePartial" \o sfx >>,
                 << "close_partial_cycle", "gInput_ClosePartialCycle" \o sfx >>,
                 << "close_partial_mode", "gInput_ClosePartialMode" \o sfx >>,
                 << "close_partial_balance", "gInput_ClosePartialBalance" \o sfx >>,
                 << "close_partial_trail_step_mode",
                    "gInput_ClosePartialTrailStepMode" \o sfx >> >>
           \o Flatten([k \in 1..3 |-> ClosePartialExtended(k + 1, logic_suffix, group_num)])
           \o << << "reverse_enabled", grp \o logic_short \o "_ReverseEnabled" >>,
                 << "hedge_enabled", grp \o logic_short \o "_HedgeEnabled" >>,
                 << "reverse_scale", grp \o "Scale_" \o logic_short \o "_Reverse" >>,
                 << "hedge_scale", grp \o "Scale_" \o logic_short \o "_Hedge" >>,
                 << "reverse_reference", grp \o logic_short \o "_ReverseReference" >>,
                 << "hedge_reference", grp \o logic_short \o "_HedgeReference" >>,
                 << "use_tp", grp \o "UseTP_" \o logic_short >>,
                 << "tp_mode", grp \o "TP_Mode_" \o logic_short >>,
                 << "tp_value", grp \o "TP_Value_" \o logic_short >>,
                 << "use_sl", grp \o "UseSL_" \o logic_short >>,
                 << "sl_mode", grp \o "SL_Mode_" \o logic_short >>,
                 << "sl_value", grp \o "SL_Value_" \o logic_short >>,
                 << "order_count_reference",
                    "gInput_" \o logic_suffix \o g \o "_OrderCountReference" >>,
                 << "reset_lot_on_restart", "gInput_ResetLotOnRestart" \o sfx >>,
                 << "close_targets", "gInput_CloseTargets" \o sfx >> >>
           \o trigger_code
           \o << << "last_lot", "gInput_LastLot" \o logic_suffix \o g >> >>]

RECURSIVE Replace(_, _, _)
\* s.replace(old, new)
Replace(s, old, new) ==
    IF Len(s) < Len(old) THEN s
    ELSE IF SubSeq(s, 1, Len(old)) = old
    THEN new \o Replace(SubSeq(s, Len(old) + 1, Len(s)), old, new)
    ELSE CharAt(s, 1) \o Replace(SubSeq(s, 2, Len(s)), old, new)

\* the names the if/elif chain of generate_engine_export knows, with the
\* logic_short it gives each
LogicShortCorrection ==
    [Power |-> "P", Repower |-> "R", Scalp |-> "S", Stopper |-> "ST",
     STO |-> "STO", SCA |-> "SCA", RPO |-> "RPO",
     BPower |-> "BP", BRepower |-> "BR", BScalp |-> "BS", BStopper |-> "BST",
     BSTO |-> "BSTO", BSCA |-> "BSCA", BRPO |-> "BRPO",
     CPower |-> "CP", CRepower |-> "CR", CScalp |-> "CS", CStopper |-> "CST",
     CSTO |-> "CSTO", CSCA |-> "CSCA", CRPO |-> "CRPO"]

\* logic_short as generate_engine_export computes it for an entry of
\* logics_info: the chain of replace calls, then the correction by name
LogicShort(logic_name, logic_suffix) ==
    DictGet(LogicShortCorrection, logic_name,
            Replace(Replace(Replace(Replace(Replace(Replace(Replace(logic_suffix,
              "P", "Power"), "R", "Repower"), "S", "Scalp"), "ST", "Stopper"),
              "STO", "STO"), "SCA", "SCA"), "RPO", "RPO"))

\* the list `engines` of __main__: engine_id, engine_name, max_power_var and
\* logics_info
MainEngines ==
    << << "A", "Engine A", "gInput_MaxPowerOrders",
          << << "Power", "P" >>, << "Repower", "R" >>, << "Scalp", "S" >>,
             << "Stopper", "ST" >>, << "STO", "STO" >>, << "SCA", "SCA" >>,
             << "RPO", "RPO" >> >> >>,
       << "B", "Engine B", "gInput_MaxPowerOrdersB",
          << << "BPower", "BP" >>, << "BRepower", "BR" >>, << "BScalp", "BS" >>,
             << "BStopper", "BST" >>, << "BSTO", "BSTO" >>, << "BSCA", "BSCA" >>,
             << "BRPO", "BRPO" >> >> >>,
       << "C", "Engine C", "gInput_MaxPowerOrdersC",
          << << "CPower", "CP" >>, << "CRepower", "CR" >>, << "CScalp", "CS" >>,
             << "CStopper", "CST" >>, << "CSTO", "CSTO" >>, << "CSCA", "CSCA" >>,
             << "CRPO", "CRPO" >> >> >> >>

\* the groups generate_engine_export loops over: range(1, 21)
MqhGroups == [g \in 1..20 |-> g]

\* ------------------------------------------------------------------------
\* validate_export.py: bytes.decode and str.splitlines in parse_set_file
\* ------------------------------------------------------------------------

\* the printable characters of ASCII from code 32 to code 95 and from code
\* 97 to code 126 (a string of the model cannot hold the grave accent, 96)
PrintableLow ==
    " !\"#$%&'()*+,-./0123456789:;<=>?@ABCDEFGHIJKLMNOPQRSTUVWXYZ[\\]^_"
PrintableHigh == "abcdefghijklmnopqrstuvwxyz{|}~"

RECURSIVE Hex(_, _)
\* n in d hexadecimal digits
Hex(n, d) ==
    IF d = 0 THEN "" ELSE Hex(n \div 16, d - 1) \o CharAt("0123456789abcdef", (n % 16) + 1)

\* the character of a code point.  A character a string of the model cannot
\* hold is written the way repr() writes it (\x00, \ufeff), and so is the
\* backslash; none of them is white space, "=" or ";" (the texts of the model
\* hold no white space other than space, tab and line breaks)
Chr(cp) ==
    IF cp = 92 THEN "\\\\"
    ELSE IF cp >= 32 /\ cp <= 95 THEN CharAt(PrintableLow, cp - 31)
    ELSE IF cp >= 97 /\ cp <= 126 THEN CharAt(PrintableHigh, cp - 96)
    ELSE IF cp = 9 THEN "\t"
    ELSE IF cp < 256 THEN "\\x" \o Hex(cp, 2)
    ELSE IF cp < 65536 THEN "\\u" \o Hex(cp, 4)
    ELSE "\\U" \o Hex(cp, 8)

\* ord(c) of a character of ASCII
Ord(c) ==
    IF c = "\t" THEN 9
    ELSE IF Find(PrintableLow, c, 1) # 0 THEN Find(PrintableLow, c, 1) + 31
    ELSE Find(PrintableHigh, c, 1) + 96

RECURSIVE Concat(_)
\* "".join(ss)
Concat(ss) == IF ss = << >> THEN "" ELSE Head(ss) \o Concat(Tail(ss))

\* the str of a sequence of code points
Str(cps) == Concat([i \in 1..Len(cps) |-> Chr(cps[i])])

\* the bytes of a text of ASCII lines, '\n'.join(lines): one byte per
\* character, in ASCII and in UTF-8 alike
AsciiBytes(lines) ==
    Flatten([i \in 1..Len(lines) |->
               (IF i = 1 THEN << >> ELSE << 10 >>)
                 \o [k \in 1..Len(lines[i]) |-> Ord(CharAt(lines[i], k))]])

\* the length of the UTF-8 sequence that starts at content[i]; 0 when the
\* bytes there are no well-formed sequence ('utf-8' codec can't decode byte)
Utf8Length(content, i) ==
    LET b == content[i]
        Cont(k) == i + k <= Len(content) /\ content[i + k] >= 128 /\ content[i + k] <= 191
    IN  IF b < 128 THEN 1
        ELSE IF b >= 194 /\ b <= 223 /\ Cont(1) THEN 2
        ELSE IF /\ b >= 224 /\ b <= 239 /\ Cont(1) /\ Cont(2)
                /\ (b = 224 => content[i + 1] >= 160)
                /\ (b = 237 => content[i + 1] <= 159) THEN 3
        ELSE IF /\ b >= 240 /\ b <= 244 /\ Cont(1) /\ Cont(2) /\ Cont(3)
                /\ (b = 240 => content[i + 1] >= 144)
                /\ (b = 244 => content[i + 1] <= 143) THEN 4
        ELSE 0

\* the code point of the well-formed sequence of n bytes at content[i]
Utf8CodePoint(content, i, n) ==
    LET c(k) == content[i + k] - 128
    IN  IF n = 1 THEN content[i]
        ELSE IF n = 2 THEN (content[i] - 192) * 64 + c(1)
        ELSE IF n = 3 THEN (content[i] - 224) * 4096 + c(1) * 64 + c(2)
        ELSE (content[i] - 240) * 262144 + c(1) * 4096 + c(2) * 64 + c(3)

RECURSIVE Utf8DecodeIgnore(_, _)
\* a decoding that stops at the first fault and keeps the text before it
Utf8DecodeIgnore(content, i) ==
    IF i > Len(content) THEN [raised |-> "", text |-> << >>]
    ELSE LET n == Utf8Length(content, i)
         IN  IF n = 0 THEN [raised |-> "", text |-> << >>]
             ELSE LET rest == Utf8DecodeIgnore(content, i + n)
                  IN  [raised |-> "",
                       text |-> << Utf8CodePoint(content, i, n) >> \o rest.text]

RECURSIVE Utf8Decode(_, _)
\* content[i:].decode('utf-8'): the code points, or UnicodeDecodeError
Utf8Decode(content, i) ==
    IF i > Len(content) THEN [raised |-> "", text |-> << >>]
    ELSE LET n == Utf8Length(content, i)
         IN  IF n = 0 THEN [raised |-> "UnicodeDecodeError", text |-> << >>]
             ELSE LET rest == Utf8Decode(content, i + n)
                  IN  IF rest.raised # "" THEN rest
                      ELSE [raised |-> "",
                            text |-> << Utf8CodePoint(content, i, n) >> \o rest.text]

RECURSIVE Utf16leDecode(_, _)
\* content[i:].decode('utf-16-le'): the code points, or UnicodeDecodeError on
\* a truncated unit or an unpaired surrogate
Utf16leDecode(content, i) ==
    IF i > Len(content) THEN [raised |-> "", text |-> << >>]
    ELSE IF i = Len(content) THEN [raised |-> "UnicodeDecodeError", text |-> << >>]
    ELSE LET u == content[i] + 256 * content[i + 1]
             pair == /\ u >= 55296 /\ u <= 56319
                     /\ i + 3 <= Len(content)
                     /\ content[i + 2] + 256 * content[i + 3] >= 56320
                     /\ content[i + 2] + 256 * content[i + 3] <= 57343
         IN  IF u >= 55296 /\ u <= 57343 /\ ~pair
             THEN [raised |-> "UnicodeDecodeError", text |-> << >>]
             ELSE LET rest == Utf16leDecode(content, IF pair THEN i + 4 ELSE i + 2)
                  IN  IF rest.raised # "" THEN rest
                      ELSE [raised |-> "",
                            text |-> << IF pair
                                        THEN 65536 + (u - 55296) * 1024
                                               + (content[i + 2] + 256 * content[i + 3] - 56320)
                                        ELSE u >> \o rest.text]

\* the code points str.splitlines() breaks a text at
LineBreaks == {10, 11, 12, 13, 28, 29, 30, 133, 8232, 8233}

RECURSIVE SplitLines(_, _, _)
\* text.splitlines() from position i on, the line begun at position a: the
\* lines without their breaks, "\r\n" one break, no empty line after a final
\* break
SplitLines(text, a, i) ==
    IF i > Len(text)
    THEN IF a > Len(text) THEN << >> ELSE << Str(SubSeq(text, a, Len(text))) >>
    ELSE IF text[i] \notin LineBreaks THEN SplitLines(text, a, i + 1)
    ELSE LET next == IF text[i] = 13 /\ i < Len(text) /\ text[i + 1] = 10
                     THEN i + 2 ELSE i + 1
         IN  << Str(SubSeq(text, a, i - 1)) >> \o SplitLines(text, next, next)

\* a decoding that takes the mark FF FE for the first character of the text
DecodeWithMark(content) ==
    LET d == IF Len(content) >= 2 /\ content[1] = 255 /\ content[2] = 254
             THEN Utf16leDecode(content, 1)
             ELSE Utf8Decode(content, 1)
    IN  [raised |-> d.raised,
         lines |-> IF d.raised # "" THEN << >> ELSE SplitLines(d.text, 1, 1)]

\* the decoding of parse_set_file: the text of the bytes, as its lines
Decode(content) ==
    LET d == IF Len(content) >= 2 /\ content[1] = 255 /\ content[2] = 254
             THEN Utf16leDecode(SubSeq(content, 3, Len(content)), 1)
             ELSE Utf8Decode(content, 1)
    IN  [raised |-> d.raised,
         lines |-> IF d.raised # "" THEN << >> ELSE SplitLines(d.text, 1, 1)]

\* a .set file on disk: its path, whether open() and read() succeed on it,
\* and its bytes.  The bytes are kept in two parts, content and then lines:
\* content holds bytes, lines holds lines of ASCII text, each character for
\* the byte that is its code.  A file has one part or the other; a line of
\* ASCII is what 'utf-8' decodes its bytes to, and its bytes are below 128,
\* so that they are never part of a mark
MissingFile == [file_path |-> "missing.set", readable |-> FALSE, content |-> << >>,
                lines |-> << >>]

\* the lines of the text of a file, or the error of decode()
DecodeFile(f) ==
    IF f.content = << >> THEN [raised |-> "", lines |-> f.lines]
    ELSE Decode(f.content \o AsciiBytes(f.lines))

\* the encodings a writer of .set files may use
Encodings == {"utf-8", "utf-16", "utf-8-sig", "utf-16-le"}

\* '\n'.join(lines).encode(encoding) for lines of ASCII: 'utf-16' writes the
\* mark FF FE and two bytes for a character, low byte first, 'utf-16-le' the
\* same without the mark, 'utf-8-sig' the mark EF BB BF and one byte for a
\* character
Encode(lines, encoding) ==
    LET b == AsciiBytes(lines)
        wide == Flatten([i \in 1..Len(b) |-> << b[i], 0 >>])
    IN  IF encoding = "utf-16" THEN << 255, 254 >> \o wide
        ELSE IF encoding = "utf-16-le" THEN wide
        ELSE IF encoding = "utf-8-sig" THEN << 239, 187, 191 >> \o b
        ELSE b

\* files whose bytes are no text: a UTF-16 text cut in the middle of a
\* character, "A=1" and a line break followed by a byte that starts no UTF-8
\* sequence, the UTF-16 text "A=1" and a line break followed by half a
\* surrogate pair, and a big-endian UTF-16 text "A=1" behind its mark FE FF
BytePool ==
    {<< 255, 254, 65 >>,
     << 65, 61, 49, 10, 255 >>,
     << 255, 254, 65, 0, 61, 0, 49, 0, 10, 0, 0, 216 >>,
     << 254, 255, 0, 65, 0, 61, 0, 49 >>}

\* the file names the two generators write to
MassivePath == "MASSIVE_DAAVILEFX_COMPLETE_v18.set"
SamplePath == "SAMPLE_VISIBLE_INPUTS.set"

\* parse_set_file without its try/except: the error of open() leaves the call
parse_set_file_uncaught(f) ==
    IF ~f.readable
    THEN [raised |-> "IOError", values |-> EmptyDict]
    ELSE LET text == DecodeFile(f)
         IN  IF text.raised # "" THEN [raised |-> text.raised, values |-> EmptyDict]
             ELSE [raised |-> "", values |-> ParseLines(text.lines)]

\* parse_set_file(file_path): what the call gives its caller.  Every
\* Exception raised in the try block is caught and printed, and the function
\* then returns the dict as it stands, which is still empty when open() or
\* read() failed
parse_set_file(f) ==
    IF ~f.readable
    THEN [raised |-> "", values |-> EmptyDict]
    ELSE LET text == DecodeFile(f)
         IN  IF text.raised # "" THEN [raised |-> "", values |-> EmptyDict]
             ELSE [raised |-> "", values |-> ParseLines(text.lines)]

\* ------------------------------------------------------------------------
\* Python values of a JSON document
\* ------------------------------------------------------------------------

PyS(s) == [t |-> "str", v |-> s]
PyI(n) == [t |-> "int", v |-> n]
PyB(b) == [t |-> "bool", v |-> b]
\* a float, by the text str() prints for it
PyF(s) == [t |-> "float", v |-> s]
None == [t |-> "NoneType", v |-> "None"]

\* str(x) / f"{x}"
PyStr(x) ==
    CASE x.t = "int" -> Decimal(x.v)
      [] x.t = "bool" -> (IF x.v THEN "True" ELSE "False")
      [] OTHER -> x.v

\* x in lst, for a list of str: == holds for an equal str only
PyInStrs(x, lst) == x.t = "str" /\ x.v \in Range(lst)

\* x == n for an int literal n (the documents of the model hold no float and
\* no bool group number)
PyEqInt(x, n) == x.t = "int" /\ x.v = n

\* ------------------------------------------------------------------------
\* generate_sample_json.py: generate_full_export
\* ------------------------------------------------------------------------

\* the "Trail Step 2-7" entries of the logic literal
ExportTrailSteps ==
    [trail_step_2 |-> PyF("1500.0"), trail_step_method_2 |-> PyS("Step_Points"),
     trail_step_cycle_2 |-> PyI(1), trail_step_balance_2 |-> PyF("0.0"),
     trail_step_mode_2 |-> PyS("TrailStepMode_Auto"),
     trail_step_3 |-> PyF("1500.0"), trail_step_method_3 |-> PyS("Step_Points"),
     trail_step_cycle_3 |-> PyI(1), trail_step_balance_3 |-> PyF("0.0"),
     trail_step_mode_3 |-> PyS("TrailStepMode_Auto"),
     trail_step_4 |-> PyF("1500.0"), trail_step_method_4 |-> PyS("Step_Points"),
     trail_step_cycle_4 |-> PyI(1), trail_step_balance_4 |-> PyF("0.0"),
     trail_step_mode_4 |-> PyS("TrailStepMode_Auto"),
     trail_step_5 |-> PyF("1500.0"), trail_step_method_5 |-> PyS("Step_Points"),
     trail_step_cycle_5 |-> PyI(1), trail_step_balance_5 |-> PyF("0.0"),
     trail_step_mode_5 |-> PyS("TrailStepMode_Auto"),
     trail_step_6 |-> PyF("1500.0"), trail_step_method_6 |-> PyS("Step_Points"),
     trail_step_cycle_6 |-> PyI(1), trail_step_balance_6 |-> PyF("0.0"),
     trail_step_mode_6 |-> PyS("TrailStepMode_Auto"),
     trail_step_7 |-> PyF("1500.0"), trail_step_method_7 |-> PyS("Step_Points"),
     trail_step_cycle_7 |-> PyI(1), trail_step_balance_7 |-> PyF("0.0"),
     trail_step_mode_7 |-> PyS("TrailStepMode_Auto")]

\* the "Close Partial 2-4" entries of the logic literal
ExportClosePartials ==
    [close_partial_2 |-> PyB(FALSE), close_partial_cycle_2 |-> PyI(3),
     close_partial_mode_2 |-> PyS("PartialMode_Low"),
     close_partial_balance_2 |-> PyS("PartialBalance_Balanced"),
     close_partial_3 |-> PyB(FALSE), close_partial_cycle_3 |-> PyI(3),
     close_partial_mode_3 |-> PyS("PartialMode_Low"),
     close_partial_balance_3 |-> PyS("PartialBalance_Balanced"),
     close_partial_4 |-> PyB(FALSE), close_partial_cycle_4 |-> PyI(3),
     close_partial_mode_4 |-> PyS("PartialMode_Low"),
     close_partial_balance_4 |-> PyS("PartialBalance_Balanced")]

\* the dict literal `logic` and the two conditional blocks after it
ExportLogic(engine_id, group_num, logic_name) ==
    LET is_power == Lower(logic_name) = "power"
        logic_id == engine_id \o "_" \o logic_name \o "_G" \o Decimal(group_num)
        logic ==
          Update(Update(
            [logic_name |-> PyS(logic_name), logic_id |-> PyS(logic_id),
             enabled |-> PyB(TRUE),
             initial_lot |-> PyF("0.02"), multiplier |-> PyF("1.2"),
             grid |-> PyF("300.0"), trail_method |-> PyS("Points"),
             trail_value |-> PyF("3000.0"), trail_start |-> PyF("1.0"),
             trail_step |-> PyF("1500.0"),
             trail_step_method |-> PyS("Step_Points"),
             close_targets |-> PyS("1,2,3"),
             order_count_reference |-> PyS("Logic_Self"),
             reset_lot_on_restart |-> PyB(FALSE),
             use_tp |-> PyB(FALSE), tp_mode |-> PyS("TPSL_Points"),
             tp_value |-> PyF("0.0"), use_sl |-> PyB(FALSE),
             sl_mode |-> PyS("TPSL_Points"), sl_value |-> PyF("0.0"),
             reverse_enabled |-> PyB(FALSE), hedge_enabled |-> PyB(FALSE),
             reverse_scale |-> PyF("100.0"), hedge_scale |-> PyF("50.0"),
             reverse_reference |-> PyS("Logic_None"),
             hedge_reference |-> PyS("Logic_None"),
             trail_step_mode |-> PyS("TrailStepMode_Auto"),
             trail_step_cycle |-> PyI(1), trail_step_balance |-> PyF("0.0"),
             close_partial |-> PyB(FALSE), close_partial_cycle |-> PyI(3),
             close_partial_mode |-> PyS("PartialMode_Low"),
             close_partial_balance |-> PyS("PartialBalance_Balanced"),
             close_partial_trail_step_mode |-> PyS("TrailStepMode_Auto")],
            ExportTrailSteps), ExportClosePartials)
        with_non_power ==
          IF ~is_power
          THEN Update(logic, [start_level |-> PyI(4), last_lot |-> PyF("0.12")])
          ELSE logic
    IN  IF group_num = 1
        THEN Update(with_non_power,
                    [trigger_type |-> PyS("Default"), trigger_bars |-> PyI(3),
                     trigger_minutes |-> PyI(15)])
        ELSE with_non_power

\* logic_names and engine_ids of generate_full_export
\* the logic list in another order
ExportLogicNamesByLength ==
    <<"STO", "SCA", "RPO", "Power", "Repower", "Scalper", "Stopper">>

ExportLogicNames ==
    <<"Power", "Repower", "Scalper", "Stopper", "STO", "SCA", "RPO">>
ExportEngineIds == <<"A", "B", "C">>
\* range(1, 21): the groups of one engine
ExportGroupCount == 20

ExportGroup(engine_id, group_num) ==
    [group_number |-> PyI(group_num), enabled |-> PyB(TRUE),
     reverse_mode |-> PyB(FALSE), hedge_mode |-> PyB(FALSE),
     hedge_reference |-> PyS("Logic_None"), entry_delay_bars |-> PyI(0),
     logics |-> [i \in 1..Len(ExportLogicNames) |->
                   ExportLogic(engine_id, group_num, ExportLogicNames[i])]]

ExportEngine(engine_id) ==
    [engine_id |-> PyS(engine_id), engine_name |-> PyS("Engine " \o engine_id),
     max_power_orders |-> PyI(10),
     groups |-> [g \in 1..ExportGroupCount |-> ExportGroup(engine_id, g)]]

\* the "general" section of the config literal
ExportGeneral ==
    [license_key |-> PyS(""),
     license_server_url |-> PyS("https://license.daavfx.com"),
     require_license |-> PyB(FALSE), license_check_interval |-> PyI(3600),
     config_file_name |-> PyS("DAAVFX_Config.json"),
     config_file_is_common |-> PyB(FALSE),
     allow_buy |-> PyB(TRUE), allow_sell |-> PyB(TRUE),
     enable_logs |-> PyB(TRUE), compounding_enabled |-> PyB(FALSE),
     compounding_type |-> PyS("Compound_Balance"),
     compounding_target |-> PyF("40.0"), compounding_increase |-> PyF("2.0"),
     restart_policy_power |-> PyS("Restart_Default"),
     restart_policy_non_power |-> PyS("Restart_Default"),
     close_non_power_on_power_close |-> PyB(FALSE),
     hold_timeout_bars |-> PyI(10), magic_number |-> PyI(777),
     max_slippage_points |-> PyF("30.0"),
     risk_management |->
       [spread_filter_enabled |-> PyB(FALSE), max_spread_points |-> PyF("25.0"),
        equity_stop_enabled |-> PyB(FALSE), equity_stop_value |-> PyF("35.0"),
        drawdown_stop_enabled |-> PyB(FALSE),
        max_drawdown_percent |-> PyF("35.0")],
     time_filters |->
       [priority_settings |->
          [news_filter_overrides_session |-> PyB(FALSE),
           session_filter_overrides_news |-> PyB(TRUE)],
        sessions |->
          [i \in 1..7 |->
             [session_number |-> PyI(i), enabled |-> PyB(FALSE),
              day |-> PyI(i % 7), start_hour |-> PyI(9),
              start_minute |-> PyI(30), end_hour |-> PyI(17),
              end_minute |-> PyI(0),
              action |-> PyS("TriggerAction_StopEA_KeepTrades"),
              auto_restart |-> PyB(TRUE),
              restart_mode |-> PyS("Restart_Immediate"),
              restart_bars |-> PyI(0), restart_minutes |-> PyI(0),
              restart_pips |-> PyI(0)]]],
     news_filter |->
       [enabled |-> PyB(FALSE), api_key |-> PyS(""),
        api_url |-> PyS("https://www.jblanked.com/news/api/calendar/"),
        countries |-> PyS("US,GB,EU"), impact_level |-> PyI(3),
        minutes_before |-> PyI(30), minutes_after |-> PyI(30),
        action |-> PyS("TriggerAction_StopEA_KeepTrades")]]

\* the config generate_full_export returns (generate_sample_json.py)
generate_full_export ==
    [version |-> PyS("17.04"), platform |-> PyS("MT4"),
     timestamp |-> PyS(NowStamp), total_inputs |-> PyI(11081),
     general |-> ExportGeneral,
     engines |-> [e \in 1..Len(ExportEngineIds) |-> ExportEngine(ExportEngineIds[e])]]

\* ------------------------------------------------------------------------
\* validate_export.py: the structural validator
\* ------------------------------------------------------------------------

REQUIRED_LOGIC_FIELDS ==
    << "logic_name", "logic_id", "enabled",
       "initial_lot", "multiplier", "grid",
       "trail_method", "trail_value", "trail_start", "trail_step",
       "trail_step_method",
       "close_targets", "order_count_reference", "reset_lot_on_restart",
       "use_tp", "tp_mode", "tp_value", "use_sl", "sl_mode", "sl_value",
       "reverse_enabled", "hedge_enabled", "reverse_scale", "hedge_scale",
       "reverse_reference", "hedge_reference",
       "trail_step_mode", "trail_step_cycle", "trail_step_balance",
       "close_partial", "close_partial_cycle", "close_partial_mode",
       "close_partial_balance", "close_partial_trail_step_mode" >>

\* the list without the field added last
REQUIRED_GROUP_FIELDS_SHORT ==
    << "group_number", "enabled", "reverse_mode", "hedge_mode",
       "hedge_reference", "logics" >>

REQUIRED_GROUP_FIELDS ==
    << "group_number", "enabled", "reverse_mode", "hedge_mode",
       "hedge_reference", "entry_delay_bars", "logics" >>

\* the list [before + x + after for x in lst if x not in d], in the order of
\* lst
MissingFrom(lst, d, before, after) ==
    LET absent == SelectSeq(lst, LAMBDA x : x \notin DOMAIN d)
    IN  [i \in 1..Len(absent) |-> before \o absent[i] \o after]

\* logic.get("logic_name", "Unknown")
LogicName(logic) == DictGet(logic, "logic_name", PyS("Unknown"))

\* whether l_name.lower() raises AttributeError: l_name is no str
LogicRaises(logic) == LogicName(logic).t # "str"

\* the condition with the test for Power lost
IsNonPowerAlways(l_name) == TRUE

\* the "Check non-Power specific fields" condition
IsNonPower(l_name) == Lower(l_name) # "power"

\* the condition with the test for group 1 lost
IsGroupOneAlways(g_num) == TRUE

\* the "Check Group 1 trigger fields" condition
IsGroupOne(g_num) == PyEqInt(g_num, 1)

\* the errors the body of `for logic in logics` appends for one logic
LogicErrors(engine_id, g_num, logic) ==
    LET l_name == PyStr(LogicName(logic))
        path == "Engine " \o PyStr(engine_id) \o " Group " \o PyStr(g_num)
                    \o " " \o l_name
    IN  MissingFrom(REQUIRED_LOGIC_FIELDS, logic, path \o ": Missing field '", "'")
        \o (IF IsNonPower(l_name)
            THEN MissingFrom(<<"start_level", "last_lot">>, logic,
                             path \o ": Missing '", "' (non-Power)")
            ELSE <<>>)
        \o (IF IsGroupOne(g_num)
            THEN MissingFrom(<<"trigger_type", "trigger_bars", "trigger_minutes">>,
                             logic,
                             "Engine " \o PyStr(engine_id) \o " Group 1 " \o l_name
                                 \o ": Missing '", "'")
            ELSE <<>>)

\* group.get("logics", [])
GroupLogics(group) == DictGet(group, "logics", <<>>)

\* the errors the body of `for group in groups` appends for one group
GroupErrors(engine_id, group) ==
    LET g_num == DictGet(group, "group_number", None)
        logics == GroupLogics(group)
    IN  MissingFrom(REQUIRED_GROUP_FIELDS, group,
                    "Engine " \o PyStr(engine_id) \o " Group " \o PyStr(g_num)
                        \o ": Missing group field '", "'")
        \o Flatten([i \in 1..Len(logics) |-> LogicErrors(engine_id, g_num, logics[i])])

\* the warnings the body of `for group in groups` appends for one group
GroupWarnings(engine_id, group) ==
    LET g_num == DictGet(group, "group_number", None)
        logics == GroupLogics(group)
    IN  IF Len(logics) # 7
        THEN << "Engine " \o PyStr(engine_id) \o " Group " \o PyStr(g_num)
                    \o " has " \o Decimal(Len(logics)) \o " logics (expected 7)" >>
        ELSE <<>>

\* engine.get("groups", [])
EngineGroups(engine) == DictGet(engine, "groups", <<>>)

\* the walk that enters only an engine with the expected number of groups
EngineErrorsFullOnly(engine) ==
    LET engine_id == DictGet(engine, "engine_id", None)
        groups == EngineGroups(engine)
    IN  IF Len(groups) # 20 THEN << >>
        ELSE Flatten([i \in 1..Len(groups) |-> GroupErrors(engine_id, groups[i])])

\* the errors the body of `for engine in engines` appends for one engine
EngineErrors(engine) ==
    LET engine_id == DictGet(engine, "engine_id", None)
        groups == EngineGroups(engine)
    IN  Flatten([i \in 1..Len(groups) |-> GroupErrors(engine_id, groups[i])])

EngineWarnings(engine) ==
    LET engine_id == DictGet(engine, "engine_id", None)
        groups == EngineGroups(engine)
    IN  (IF ~PyInStrs(engine_id, <<"A", "B", "C">>)
         THEN << "Unexpected engine ID: " \o PyStr(engine_id) >> ELSE <<>>)
        \o (IF Len(groups) # 20
            THEN << "Engine " \o PyStr(engine_id) \o " has "
                        \o Decimal(Len(groups)) \o " groups (expected 20)" >>
            ELSE <<>>)
        \o Flatten([i \in 1..Len(groups) |-> GroupWarnings(engine_id, groups[i])])

\* whether the walk reaches a logic whose logic_name is no str
WalkRaises(engines) ==
    \E e \in 1..Len(engines) :
      \E g \in 1..Len(EngineGroups(engines[e])) :
        \E l \in 1..Len(GroupLogics(EngineGroups(engines[e])[g])) :
          LogicRaises(GroupLogics(EngineGroups(engines[e])[g])[l])

\* the document after a validation that drops the engines it does not expect
DataAfterRepair(d) ==
    IF "engines" \notin DOMAIN d THEN d
    ELSE [d EXCEPT !["engines"] =
            SelectSeq(@, LAMBDA engine :
                           PyInStrs(DictGet(engine, "engine_id", None),
                                    <<"A", "B", "C">>))]

\* the object `data` after validate_json_structure(data): the function reads
\* it with .get(), `in` and len() only and assigns to no object of it
DataAfterValidation(d) == d

\* validate_json_structure(data): what the call gives its caller.  raised is
\* "" when it returns (errors, warnings), and the exception's type when one
\* leaves the function: the lists built so far are then lost
validate_json_structure(d) ==
    LET engines == DictGet(d, "engines", <<>>)
    IN  IF engines = <<>>
        THEN [raised |-> "", errors |-> <<"No engines found in config">>,
              warnings |-> <<>>]
        ELSE IF WalkRaises(engines)
        THEN [raised |-> "AttributeError", errors |-> <<>>, warnings |-> <<>>]
        ELSE [raised |-> "",
              errors |-> Flatten([e \in 1..Len(engines) |-> EngineErrors(engines[e])]),
              warnings |-> Flatten([e \in 1..Len(engines) |-> EngineWarnings(engines[e])])]

\* ------------------------------------------------------------------------
\* validate_export.py: the parity validator
\* ------------------------------------------------------------------------

\* the three loop ranges of validate_set_file_parity
ParityEngines == <<"A", "B", "C">>
\* range(1, 20): the last group is left out
ParityGroupsShort == [i \in 1..19 |-> i]
ParityGroups == [i \in 1..20 |-> i]
ParityLogicNames ==
    <<"Power", "Repower", "Scalper", "Stopper", "STO", "SCA", "RPO">>

\* the errors with one label for group keys and logic keys alike
MissingKeysOneLabel(keys, set_values, label) ==
    LET absent == SelectSeq(keys, LAMBDA key : key \notin DOMAIN set_values)
    IN  [i \in 1..Len(absent) |-> "Missing key: " \o absent[i]]

\* the errors one pass of `for key in ...: if key not in set_values` appends
MissingKeys(keys, set_values, label) ==
    LET absent == SelectSeq(keys, LAMBDA key : key \notin DOMAIN set_values)
    IN  [i \in 1..Len(absent) |-> label \o absent[i]]

\* the errors the body of `for group in range(1, 21)` appends
ParityGroupErrors(engine_id, group, set_values) ==
    MissingKeys(generate_group_level_keys(group), set_values, "Missing group key: ")
    \o Flatten([l \in 1..Len(ParityLogicNames) |->
         MissingKeys(generate_expected_set_keys(engine_id, group, ParityLogicNames[l]),
                     set_values, "Missing logic key: ")])

\* validate_set_file_parity(set_file): what the call gives its caller, and
\* the mapping it decoded on the way
validate_set_file_parity(f) ==
    LET parsed == parse_set_file(f)
        set_values == parsed.values
    IN  IF parsed.raised # ""
        THEN [raised |-> parsed.raised, errors |-> << >>, warnings |-> << >>,
              set_values |-> EmptyDict]
        ELSE IF DOMAIN set_values = {}
        THEN [raised |-> "",
              errors |-> << "Failed to parse .set file: " \o f.file_path >>,
              warnings |-> << >>, set_values |-> set_values]
        ELSE [raised |-> "",
              errors |-> Flatten([e \in 1..Len(ParityEngines) |->
                           Flatten([g \in 1..Len(ParityGroups) |->
                             ParityGroupErrors(ParityEngines[e], ParityGroups[g],
                                               set_values)])]),
              warnings |-> << >>, set_values |-> set_values]

\* ------------------------------------------------------------------------
\* generate_sample_json.py: generate_set_file
\* ------------------------------------------------------------------------

TRAIL_METHODS == [Points |-> 0, Percent |-> 1, AVG_Points |-> 2, AVG_Percent |-> 3]
TRAIL_STEP_METHODS == [Step_Points |-> 0, Step_Percent |-> 1, Step_Pips |-> 2]
logic_suffix_map ==
    [Power |-> "P", Repower |-> "R", Scalper |-> "S", Stopper |-> "ST",
     STO |-> "STO", SCA |-> "SCA", RPO |-> "RPO"]

\* table.get(x, default) for a table keyed by str and a Python value x
PyDictGet(table, x, default) ==
    IF x.t = "str" THEN DictGet(table, x.v, default) ELSE default

\* bool(x) for the values the documents hold
PyTruthy(x) ==
    CASE x.t = "bool" -> x.v
      [] x.t = "int" -> x.v # 0
      [] x.t = "NoneType" -> FALSE
      [] OTHER -> x.v # ""

\* x == s for a str literal s
PyEqStr(x, s) == x.t = "str" /\ x.v = s

\* next((x for x in seq if x[key] == value), None): the index of the first
\* match, 0 for None
FirstWith(seq, key, value) ==
    LET idx == {i \in 1..Len(seq) : seq[i][key].t = value.t /\ seq[i][key].v = value.v}
    IN  IF idx = {} THEN 0 ELSE CHOOSE i \in idx : \A j \in idx : i <= j

\* the lines generate_set_file writes for one logic of group 1
SetFileLogicLines(engine_a, logic) ==
    LET name == logic["logic_name"]
        suffix == PyDictGet(logic_suffix_map, name, "Unknown")
        suffix_full == suffix \o "1"
        tm == DictGet(logic, "trail_method", PyS("Points"))
        tsm == DictGet(logic, "trail_step_method", PyS("Step_Points"))
    IN  << "; --- " \o PyStr(name) \o " 1 ---",
           "gInput_str1_" \o PyStr(name) \o "=" \o PyStr(name) \o " 1" >>
        \o (IF "initial_lot" \in DOMAIN logic
            THEN << "gInput_Initial_loT_" \o suffix_full \o "="
                        \o PyStr(logic["initial_lot"]) >>
            ELSE << >>)
        \o (IF "multiplier" \in DOMAIN logic
            THEN << "gInput_Mult_" \o suffix_full \o "=" \o PyStr(logic["multiplier"]) >>
            ELSE << >>)
        \o (IF "grid" \in DOMAIN logic
            THEN << "gInput_Grid_" \o suffix_full \o "=" \o PyStr(logic["grid"]) >>
            ELSE << >>)
        \o << "gInput_Trail_" \o suffix_full \o "="
                  \o Decimal(PyDictGet(TRAIL_METHODS, tm, 0)),
              "gInput_TrailValue_" \o suffix_full \o "="
                  \o PyStr(DictGet(logic, "trail_value", PyI(0))),
              "gInput_Trail_Start_" \o suffix_full \o "="
                  \o PyStr(DictGet(logic, "trail_start", PyI(0))),
              "gInput_TrailStep_" \o suffix_full \o "="
                  \o PyStr(DictGet(logic, "trail_step", PyI(0))),
              "gInput_TrailStepMethod_" \o suffix_full \o "="
                  \o Decimal(PyDictGet(TRAIL_STEP_METHODS, tsm, 0)) >>
        \o (IF PyEqStr(name, "Power")
            THEN << "gInput_MaxPowerOrders="
                        \o PyStr(DictGet(engine_a, "max_power_orders", PyI(10))),
                    "gInput_LastLotPower="
                        \o PyStr(DictGet(logic, "last_lot", PyF("0.63"))) >>
            ELSE << "gInput_Start" \o PyStr(name) \o "="
                        \o PyStr(DictGet(logic, "start_level", PyI(4))),
                    "gInput_LastLot" \o PyStr(name) \o "="
                        \o PyStr(DictGet(logic, "last_lot", PyF("0.12"))) >>)
        \o << "" >>

\* the text generate_set_file(config, filename) writes, as its lines
generate_set_file(config) ==
    LET gen == config["general"]
        head ==
          << "; DAAVFX V17.04 Generated Setfile",
             "; Contains Group 1 (Visible) inputs + Global Settings",
             "; For Hidden inputs (Groups 2-20), use the JSON config loader.",
             "",
             "MagicNumber=" \o PyStr(DictGet(gen, "magic_number", PyI(777))),
             "MaxSlippage=" \o PyStr(DictGet(gen, "max_slippage_points", PyF("30.0"))),
             "EnableLogs=" \o (IF PyTruthy(DictGet(gen, "enable_logs", PyB(TRUE)))
                               THEN "1" ELSE "0"),
             "" >>
        a == FirstWith(config["engines"], "engine_id", PyS("A"))
    IN  IF a = 0 THEN head
        ELSE LET engine_a == config["engines"][a]
                 g1 == FirstWith(engine_a["groups"], "group_number", PyI(1))
             IN  IF g1 = 0 THEN head
                 ELSE LET logics == engine_a["groups"][g1]["logics"]
                      IN  head
                          \o << "; ==== GROUP 1 ====", "gInput_str1==== GROUP 1 ====" >>
                          \o Flatten([i \in 1..Len(logics) |->
                                        SetFileLogicLines(engine_a, logics[i])])

\* ------------------------------------------------------------------------
\* The documents and files the validators are run on
\* ------------------------------------------------------------------------

\* how many engines and groups of the generated export an edit may touch
MaxEditEngine == 1
MaxEditGroup == 2
\* how many lines a hand-written .set file has at most
MaxLines == 2
\* how many generate_logic_inputs calls a run makes, and the groups they
\* are made for
MaxCalls == 2
MaxCallGroup == 1

\* del d[k]
DictRemove(d, k) == [x \in (DOMAIN d) \ {k} |-> d[x]] @@ EmptyDict

\* d[k] = v
DictSet(d, k, v) == Update(d, [x \in {k} |-> v])

\* the logic at engines[e].groups[g].logics[l] of a document
LogicAt(d, e, g, l) == d["engines"][e]["groups"][g]["logics"][l]

\* the document with that logic replaced
WithLogicAt(d, e, g, l, logic) ==
    [d EXCEPT !["engines"][e]["groups"][g]["logics"][l] = logic]

\* the fields validate_json_structure looks for in a logic only under a
\* condition
ConditionalFields ==
    {"start_level", "last_lot", "trigger_type", "trigger_bars", "trigger_minutes"}

\* every field validate_json_structure looks for in a logic
CheckedLogicFields == Range(REQUIRED_LOGIC_FIELDS) \cup ConditionalFields

\* a logic written by hand: the unconditional fields of an exported logic
\* and the conditional fields of S
HandLogic(name, S) ==
    LET full == ExportLogic("A", 1, "Repower")
    IN  [f \in ((DOMAIN full) \ ConditionalFields) \cup S |->
           IF f = "logic_name" THEN PyS(name) ELSE full[f]] @@ EmptyDict

\* a document written by hand: one engine, one group, one logic
HandDocument(g, name, S) ==
    [version |-> PyS("17.04"),
     engines |->
       << [engine_id |-> PyS("A"), engine_name |-> PyS("Engine A"),
           max_power_orders |-> PyI(10),
           groups |->
             << [group_number |-> PyI(g), enabled |-> PyB(TRUE),
                 reverse_mode |-> PyB(FALSE), hedge_mode |-> PyB(FALSE),
                 hedge_reference |-> PyS("Logic_None"),
                 entry_delay_bars |-> PyI(0),
                 logics |-> << HandLogic(name, S) >>] >>] >>]

\* the logic_name values an edit may write
EditedNames == {None, PyS("power"), PyS("POWER"), PyS("Scalp")}

\* the lines a hand-written .set file is made of
LinePool ==
    {"gInput_MaxOrders=100", "gInput_MaxOrders=150",
     "gInput_Grid_BST3=300.0", "  gInput_Grid_BST3 = 1=2  ",
     "gInput_Group1_ReverseMode=0", "; gInput_Mult_P1=1.2", "no equals sign", ""}

RECURSIVE SeqsUpTo(_, _)
\* the sequences over S of length at most n
SeqsUpTo(S, n) ==
    IF n = 0 THEN {<< >>}
    ELSE LET shorter == SeqsUpTo(S, n - 1)
         IN  shorter \cup {Append(q, x) : q \in shorter, x \in S}

NoEdit == [kind |-> "none", engine |-> 0, group |-> 0, logic |-> 0,
           field |-> "", name |-> ""]
NoKeys == [engine_id |-> "", group |-> 0, logic_name |-> "", suffix |-> "",
           short |-> "", keys |-> << >>]

VARIABLES
    data,        \* the document validate_export loaded
    edit,        \* how data differs from the generated export
    file,        \* the .set file: its path, whether open() succeeds, its lines
    set_values,  \* the mapping the last decoding gave
    expected,    \* the last generate_expected_set_keys call and its result
    errors,      \* the errors list of the last validation
    warnings,    \* the warnings list of the last validation
    raised,      \* the exception that left the last call, "" for none
    called,      \* the call that completed last
    exit_status, \* << >> while the command runs, then << its exit status >>
    random_state, \* how many numbers the generator of the random module gave
    calls,       \* the generate_logic_inputs calls made, with what they returned
    logic_export \* the last generate_logic_export call and the object of its code

\* a run is one command: the structure check of a document, or the writing,
\* decoding and parity check of a .set file
vars == << data, edit, file, set_values, expected, errors, warnings, raised, called,
          exit_status, random_state, calls, logic_export >>

\* no generate_logic_export call has been made
NoLogicExport ==
    [e |-> 0, g |-> 0, i |-> 0, engine_id |-> "", group |-> 0, logic_name |-> "",
     code |-> [comma |-> "", fields |-> << >>]]

Init ==
    /\ data = generate_full_export
    /\ edit = NoEdit
    /\ file = MissingFile
    /\ set_values = EmptyDict
    /\ expected = NoKeys
    /\ errors = << >>
    /\ warnings = << >>
    /\ raised = ""
    /\ called = "none"
    /\ exit_status = << >>
    /\ random_state = 0
    /\ calls = << >>
    /\ logic_export = NoLogicExport

\* the export reaches the validator with one field of one logic removed
RemoveLogicField(e, g, l, field) ==
    /\ called = "none" /\ edit.kind = "none" /\ file = MissingFile
    /\ field \in DOMAIN LogicAt(data, e, g, l)
    /\ data' = WithLogicAt(data, e, g, l, DictRemove(LogicAt(data, e, g, l), field))
    /\ edit' = [kind |-> "remove", engine |-> e, group |-> g, logic |-> l,
                field |-> field, name |-> PyStr(LogicAt(data, e, g, l)["logic_name"])]
    /\ UNCHANGED << logic_export, random_state, calls, exit_status, file, set_values, expected, errors, warnings, raised, called >>

\* the export reaches the validator with the logic_name of one logic rewritten
SetLogicName(e, g, l, v) ==
    /\ called = "none" /\ edit.kind = "none" /\ file = MissingFile
    /\ data' = WithLogicAt(data, e, g, l, DictSet(LogicAt(data, e, g, l), "logic_name", v))
    /\ edit' = [kind |-> "rename", engine |-> e, group |-> g, logic |-> l,
                field |-> "logic_name", name |-> PyStr(v)]
    /\ UNCHANGED << logic_export, random_state, calls, exit_status, file, set_values, expected, errors, warnings, raised, called >>

\* a hand-written document reaches the validator instead of the export
LoadDocument(g, name, S) ==
    /\ called = "none" /\ edit.kind = "none" /\ file = MissingFile
    /\ data' = HandDocument(g, name, S)
    /\ edit' = [kind |-> "load", engine |-> 1, group |-> 1, logic |-> 1,
                field |-> "", name |-> name]
    /\ UNCHANGED << logic_export, random_state, calls, exit_status, file, set_values, expected, errors, warnings, raised, called >>

\* the engine_id values an edit may write
EditedEngineIds == {None, PyS("D"), PyS("a")}

\* a document that holds only the first n engines of the export
KeepEngines(n) ==
    /\ called = "none" /\ edit.kind = "none" /\ file = MissingFile
    /\ data' = [data EXCEPT !["engines"] = SubSeq(@, 1, n)]
    /\ edit' = [NoEdit EXCEPT !.kind = "engines", !.engine = n]
    /\ UNCHANGED << logic_export, random_state, calls, exit_status, file, set_values, expected, errors, warnings, raised, called >>

\* the export reaches the validator with the engine_id of one engine rewritten
SetEngineId(e, v) ==
    /\ called = "none" /\ edit.kind = "none" /\ file = MissingFile
    /\ data' = [data EXCEPT !["engines"][e]["engine_id"] = v]
    /\ edit' = [NoEdit EXCEPT !.kind = "engine_id", !.engine = e, !.name = PyStr(v)]
    /\ UNCHANGED << logic_export, random_state, calls, exit_status, file, set_values, expected, errors, warnings, raised, called >>

\* an engine of the document holds only its first n groups
KeepGroups(e, n) ==
    /\ called = "none" /\ edit.kind = "none" /\ file = MissingFile
    /\ data' = [data EXCEPT !["engines"][e]["groups"] = SubSeq(@, 1, n)]
    /\ edit' = [NoEdit EXCEPT !.kind = "groups", !.engine = e, !.group = n]
    /\ UNCHANGED << logic_export, random_state, calls, exit_status, file, set_values, expected, errors, warnings, raised, called >>

\* a group of the document holds only its first n logics
KeepLogics(e, g, n) ==
    /\ called = "none" /\ edit.kind = "none" /\ file = MissingFile
    /\ data' = [data EXCEPT !["engines"][e]["groups"][g]["logics"] = SubSeq(@, 1, n)]
    /\ edit' = [NoEdit EXCEPT !.kind = "logics", !.engine = e, !.group = g,
                               !.logic = n]
    /\ UNCHANGED << logic_export, random_state, calls, exit_status, file, set_values, expected, errors, warnings, raised, called >>

\* the export reaches the validator with one field of one group removed
RemoveGroupField(e, g, field) ==
    /\ called = "none" /\ edit.kind = "none" /\ file = MissingFile
    /\ data' = [data EXCEPT !["engines"][e]["groups"][g] = DictRemove(@, field)]
    /\ edit' = [NoEdit EXCEPT !.kind = "remove_group", !.engine = e, !.group = g,
                               !.field = field]
    /\ UNCHANGED << logic_export, random_state, calls, exit_status, file, set_values, expected, errors, warnings, raised, called >>

\* errors, warnings = validate_json_structure(data)
ValidateJsonStructure ==
    /\ called = "none" /\ edit.kind # "unreadable" /\ file = MissingFile
    /\ \E r \in {validate_json_structure(data)} :
           /\ errors' = r.errors
           /\ warnings' = r.warnings
           /\ raised' = r.raised
    /\ data' = DataAfterValidation(data)
    /\ called' = "validate_json_structure"
    /\ UNCHANGED << logic_export, random_state, calls, exit_status, edit, file, set_values, expected >>

\* keys = generate_expected_set_keys(engine_id, group, logic_name)
ExpectKeys(engine_id, group, logic_name) ==
    /\ called = "none" /\ edit.kind = "none" /\ file = MissingFile
    /\ expected' = [engine_id |-> engine_id, group |-> group,
                    logic_name |-> logic_name,
                    suffix |-> get_suffix(engine_id, group, logic_name),
                    short |-> get_short(engine_id, logic_name),
                    keys |-> generate_expected_set_keys(engine_id, group, logic_name)]
    /\ called' = "generate_expected_set_keys"
    /\ UNCHANGED << logic_export, random_state, calls, exit_status, data, edit, file, set_values, errors, warnings, raised >>

\* a .set file written by hand
WriteCustom(lines) ==
    /\ called = "none" /\ file = MissingFile /\ edit.kind = "none"
    /\ file' = [file_path |-> "custom.set", readable |-> TRUE, content |-> << >>, lines |-> lines]
    /\ UNCHANGED << logic_export, random_state, calls, exit_status, data, edit, set_values, expected, errors, warnings, raised, called >>

\* the lines of a .set file that gives every key the parity validator looks
\* for the value 0
CompleteLines ==
    Flatten([e \in 1..Len(ExportEngineIds) |->
      Flatten([g \in 1..ExportGroupCount |->
        [i \in 1..Len(generate_group_level_keys(g)) |->
           generate_group_level_keys(g)[i] \o "=0"]
        \o Flatten([l \in 1..Len(ExportLogicNames) |->
             LET keys == generate_expected_set_keys(ExportEngineIds[e], g,
                                                    ExportLogicNames[l])
             IN  [i \in 1..Len(keys) |-> keys[i] \o "=0"]])])])

\* a .set file of the lines, written in one of the encodings
WriteEncoded(lines, encoding) ==
    /\ called = "none" /\ file = MissingFile /\ edit.kind = "none"
    /\ file' = [file_path |-> "encoded.set", readable |-> TRUE,
                content |-> Encode(lines, encoding), lines |-> << >>]
    /\ UNCHANGED << logic_export, random_state, calls, exit_status, data, edit, set_values, expected,
                    errors, warnings, raised, called >>

\* a file of the given bytes
WriteBytes(content) ==
    /\ called = "none" /\ file = MissingFile /\ edit.kind = "none"
    /\ file' = [file_path |-> "bytes.set", readable |-> TRUE, content |-> content,
                lines |-> << >>]
    /\ UNCHANGED << logic_export, random_state, calls, exit_status, data, edit, set_values, expected,
                    errors, warnings, raised, called >>

\* a .set file written by hand that holds every expected key
WriteComplete ==
    /\ called = "none" /\ file = MissingFile /\ edit.kind = "none"
    /\ file' = [file_path |-> "complete.set", readable |-> TRUE, content |-> << >>,
                lines |-> CompleteLines]
    /\ UNCHANGED << logic_export, random_state, calls, exit_status, data, edit, set_values, expected, errors, warnings,
                    raised, called >>

\* generate_set_file(config, "SAMPLE_VISIBLE_INPUTS.set"), which __main__
\* calls on the config generate_full_export() has just returned
WriteSample ==
    /\ called = "none" /\ file = MissingFile /\ edit.kind = "none"
    /\ file' = [file_path |-> SamplePath, readable |-> TRUE, content |-> << >>,
                lines |-> generate_set_file(data)]
    /\ UNCHANGED << logic_export, random_state, calls, exit_status, data, edit, set_values, expected, errors, warnings, raised, called >>

\* main() of generate_massive_setfile.py writes the generated text
WriteMassive ==
    /\ called = "none" /\ file = MissingFile /\ edit.kind = "none"
    /\ file' = [file_path |-> MassivePath, readable |-> TRUE, content |-> << >>,
                lines |-> generate_massive_setfile]
    /\ UNCHANGED << logic_export, random_state, calls, exit_status, data, edit, set_values, expected, errors, warnings, raised, called >>

\* set_values = parse_set_file(file_path)
ParseSetFile ==
    /\ called = "none" /\ edit.kind = "none"
    /\ \E r \in {parse_set_file(file)} :
           /\ set_values' = r.values
           /\ raised' = r.raised
    /\ called' = "parse_set_file"
    /\ UNCHANGED << logic_export, random_state, calls, exit_status, data, edit, file, expected, errors, warnings >>

\* errors, warnings = validate_set_file_parity(set_file)
ValidateSetFileParity ==
    /\ called = "none" /\ edit.kind = "none"
    /\ \E r \in {validate_set_file_parity(file)} :
           /\ errors' = r.errors
           /\ warnings' = r.warnings
           /\ raised' = r.raised
           /\ set_values' = r.set_values
    /\ called' = "validate_set_file_parity"
    /\ UNCHANGED << logic_export, random_state, calls, exit_status, data, edit, file, expected >>

\* the file validate_export is given cannot be opened or holds no JSON
LoadFails ==
    /\ called = "none" /\ edit.kind = "none" /\ file = MissingFile
    /\ edit' = [NoEdit EXCEPT !.kind = "unreadable"]
    /\ UNCHANGED << logic_export, random_state, calls, exit_status, data, file, set_values, expected, errors, warnings,
                    raised, called >>

\* success that a warning spoils too
ExportSuccessNoWarnings(errs) == errs = << >> /\ warnings = << >>

\* the value validate_export returns once validate_json_structure has
\* returned its errors
ExportSuccess(errs) == errs = << >>

\* the value validate_set_parity returns once validate_set_file_parity has
\* returned its errors
ParitySuccess(errs) == errs = << >>

\* the status the interpreter exits with: sys.exit(0 if success else 1), and
\* 1 when an exception was never caught
ExitCode(success, exception) == IF exception = "" /\ success THEN 0 ELSE 1

\* validate_export from the return of validate_json_structure (or from the
\* failed json.load) to sys.exit
ExitValidateExport ==
    /\ exit_status = << >>
    /\ \/ called = "validate_json_structure"
       \/ called = "none" /\ edit.kind = "unreadable"
    /\ exit_status' =
         << ExitCode(edit.kind # "unreadable" /\ ExportSuccess(errors), raised) >>
    /\ called' = "validate_export"
    /\ UNCHANGED << logic_export, random_state, calls, data, edit, file, set_values, expected, errors,
                    warnings, raised >>

\* validate_set_parity from the return of validate_set_file_parity to
\* sys.exit
ExitValidateSetParity ==
    /\ exit_status = << >>
    /\ called = "validate_set_file_parity"
    /\ exit_status' = << ExitCode(ParitySuccess(errors), raised) >>
    /\ called' = "validate_set_parity"
    /\ UNCHANGED << logic_export, random_state, calls, data, edit, file, set_values, expected, errors,
                    warnings, raised >>

\* the structural validator on generated, edited and hand-written documents
Next ==
    \/ \E e \in 1..MaxEditEngine, g \in 1..MaxEditGroup,
          l \in 1..Len(ExportLogicNames), field \in CheckedLogicFields :
         RemoveLogicField(e, g, l, field)
    \/ \E e \in 1..MaxEditEngine, g \in 1..MaxEditGroup,
          l \in 1..Len(ExportLogicNames), v \in EditedNames :
         SetLogicName(e, g, l, v)
    \/ \E g \in 1..MaxEditGroup, name \in Range(ExportLogicNames),
          S \in SUBSET ConditionalFields :
         LoadDocument(g, name, S)
    \/ \E n \in 0..(Len(ExportEngineIds) - 1) : KeepEngines(n)
    \/ \E e \in 1..MaxEditEngine, v \in EditedEngineIds : SetEngineId(e, v)
    \/ \E e \in 1..MaxEditEngine, n \in 0..(ExportGroupCount - 1) : KeepGroups(e, n)
    \/ \E e \in 1..MaxEditEngine, g \in 1..MaxEditGroup,
          n \in 0..(Len(ExportLogicNames) - 1) :
         KeepLogics(e, g, n)
    \/ \E e \in 1..MaxEditEngine, g \in 1..MaxEditGroup,
          field \in DOMAIN ExportGroup("A", 1) :
         RemoveGroupField(e, g, field)
    \/ LoadFails
    \/ ValidateJsonStructure
    \/ ExitValidateExport
    \/ \E engine_id \in Range(ExportEngineIds), group \in 1..ExportGroupCount,
          logic_name \in Range(ExportLogicNames) :
         ExpectKeys(engine_id, group, logic_name)

Spec == Init /\ [][Next]_vars

\* the decoder and the parity validator on hand-written and sample files
NextSet ==
    \/ \E lines \in SeqsUpTo(LinePool, MaxLines) : WriteCustom(lines)
    \/ WriteSample
    \/ ParseSetFile
    \/ ValidateSetFileParity
    \/ ExitValidateSetParity

SpecSet == Init /\ [][NextSet]_vars

\* the same, and the file of generate_massive_setfile.py
NextGen ==
    \/ NextSet
    \/ WriteMassive

SpecGen == Init /\ [][NextGen]_vars

\* the pass of the loops that follows the pass of engine e, group g and entry
\* i of logics_info: the logics of a group, the groups of an engine, the
\* engines of __main__; << >> after the last pass
NextPass(e, g, i) ==
    IF e = 0 THEN << 1, 1, 1 >>
    ELSE IF i < Len(MainEngines[e][4]) THEN << e, g, i + 1 >>
    ELSE IF g < Len(MqhGroups) THEN << e, g + 1, 1 >>
    ELSE IF e < Len(MainEngines) THEN << e + 1, 1, 1 >>
    ELSE << >>

\* one pass of the inner loop of generate_engine_export: the next entry of
\* logics_info, of the next group, of the next engine of __main__
GenerateLogicExport ==
    LET pass == NextPass(logic_export.e, logic_export.g, logic_export.i) IN
    /\ pass # << >>
    /\ LET engine_id == MainEngines[pass[1]][1]
           logics_info == MainEngines[pass[1]][4]
           group == MqhGroups[pass[2]]
           logic_name == logics_info[pass[3]][1]
           logic_suffix == logics_info[pass[3]][2]
           logic_short == LogicShort(logic_name, logic_suffix)
           is_last == (pass[3] = Len(logics_info))
       IN  logic_export' =
             [e |-> pass[1], g |-> pass[2], i |-> pass[3],
              engine_id |-> engine_id, group |-> group, logic_name |-> logic_name,
              code |-> generate_logic_export(engine_id, logic_name, logic_suffix,
                                             group, is_last, logic_short)]
    /\ UNCHANGED << random_state, calls, exit_status, data, edit, file, set_values,
                    expected, errors, warnings, raised, called >>

\* python generate_full_export.py
NextExport == GenerateLogicExport

SpecExport == Init /\ [][NextExport]_vars

\* the decoder and the parity validator on the bytes of a file
NextBytes ==
    \/ \E lines \in SeqsUpTo(LinePool, MaxLines), encoding \in Encodings :
         WriteEncoded(lines, encoding)
    \/ \E content \in BytePool : WriteBytes(content)
    \/ ParseSetFile
    \/ ValidateSetFileParity
    \/ ExitValidateSetParity

SpecBytes == Init /\ [][NextBytes]_vars

\* logic_inputs = generate_logic_inputs(group, engine, logic, direction) of
\* generate_massive_setfile.py
CallLogicInputs(group, engine, logic, direction) ==
    /\ Len(calls) < MaxCalls
    /\ calls' = Append(calls, [version |-> 18,
                               args |-> << group, engine, logic, direction >>,
                               inputs |-> generate_logic_inputs(group, engine, logic,
                                                                direction)])
    /\ UNCHANGED << logic_export, random_state, data, edit, file, set_values, expected, errors,
                    warnings, raised, called, exit_status >>

\* the same call of generate_massive_setfile_v19.py: it moves the generator
\* of the random module on
CallLogicInputsV19(group, engine, logic, direction) ==
    /\ Len(calls) < MaxCalls
    /\ \E r \in {generate_logic_inputs_v19(group, engine, logic, direction,
                                            random_state)} :
           /\ calls' = Append(calls, [version |-> 19,
                                      args |-> << group, engine, logic, direction >>,
                                      inputs |-> r.inputs])
           /\ random_state' = r.random_state
    /\ UNCHANGED << logic_export, data, edit, file, set_values, expected, errors, warnings, raised,
                    called, exit_status >>

\* the encoder of both generator versions, called several times
NextEnc ==
    \/ \E group \in 1..MaxCallGroup, engine \in Range(ENGINES),
          logic \in Range(LOGICS), direction \in Range(DIRECTIONS) :
         CallLogicInputs(group, engine, logic, direction)
    \/ \E group \in 1..MaxCallGroup, engine \in Range(ENGINES),
          logic \in Range(LOGICS), direction \in Range(DIRECTIONS) :
         CallLogicInputsV19(group, engine, logic, direction)

SpecEnc == Init /\ [][NextEnc]_vars

\* both commands of validate_export.py, the second also on a file that holds
\* every expected key
NextAll ==
    \/ Next
    \/ NextSet
    \/ WriteComplete

SpecAll == Init /\ [][NextAll]_vars

\* ------------------------------------------------------------------------
\* Properties
\* ------------------------------------------------------------------------

\* sub occurs in s
Contains(s, sub) ==
    \E i \in 1..(Len(s) - Len(sub) + 1) : SubSeq(s, i, i + Len(sub) - 1) = sub

CanonicalEngines == {"A", "B", "C"}
CanonicalLogics == {"Power", "Repower", "Scalper", "Stopper", "STO", "SCA", "RPO"}
NonPowerLogics == CanonicalLogics \ {"Power"}
TriggerFields == {"trigger_type", "trigger_bars", "trigger_minutes"}

\* the expected keys of the cross-product of the engines E, the groups 1..n
\* and the seven canonical logics
CrossKeys(E, n) ==
    UNION {Range(generate_expected_set_keys(e, g, l)) :
             e \in E, g \in 1..n, l \in CanonicalLogics}

\* the positions <<e, g, l>> of the logics of the document
LogicPositions ==
    LET engines == DictGet(data, "engines", << >>)
    IN  UNION {UNION {{<< e, g, l >> :
                         l \in 1..Len(GroupLogics(EngineGroups(engines[e])[g]))} :
                      g \in 1..Len(EngineGroups(engines[e]))} :
               e \in 1..Len(engines)}

\* the path an error gives the logic at a position: engine id, group number
\* and logic name ("Unknown" for a logic that has none)
PathAt(p) ==
    LET engine == data["engines"][p[1]]
        group == engine["groups"][p[2]]
        logic == group["logics"][p[3]]
    IN  "Engine " \o PyStr(DictGet(engine, "engine_id", None)) \o " Group "
            \o PyStr(DictGet(group, "group_number", None)) \o " "
            \o PyStr(DictGet(logic, "logic_name", PyS("Unknown"))) \o ":"

\* how many errors name the path and the field
Reports(path, field) ==
    Cardinality({i \in 1..Len(errors) :
                   /\ Contains(errors[i], path)
                   /\ Contains(errors[i], "'" \o field \o "'")})

\* C1: validate_set_file_parity, run on the file generate_massive_setfile
\* wrote, returns an empty errors list
SelfConsistency ==
    (called = "validate_set_file_parity" /\ file.file_path = MassivePath)
        => errors = << >>

MassiveExpectedKeys == CrossKeys(CanonicalEngines, GROUPS)
SampleExpectedKeys == CrossKeys({"A"}, 1)

\* C2: the mapping parse_set_file decodes from a generated file holds every
\* key of generate_expected_set_keys over the cross-product the file was
\* generated for (the GROUPS groups of the three engines for the massive file,
\* group 1 of engine A for the sample file)
RoundTripCompleteness ==
    called = "parse_set_file" =>
        /\ file.file_path = MassivePath => MassiveExpectedKeys \subseteq DOMAIN set_values
        /\ file.file_path = SamplePath => SampleExpectedKeys \subseteq DOMAIN set_values

\* C3: after one required field was removed from one logic of the generated
\* export, validate_json_structure returns exactly one error, and the error
\* names the field and the engine, group and logic it was removed from
FieldOmissionDetection ==
    (/\ called = "validate_json_structure"
     /\ edit.kind = "remove"
     /\ \/ edit.field \in Range(REQUIRED_LOGIC_FIELDS)
        \/ edit.field \in {"start_level", "last_lot"} /\ edit.name # "Power"
        \/ edit.field \in TriggerFields /\ edit.group = 1)
    => /\ raised = ""
       /\ Len(errors) = 1
       /\ Contains(errors[1], "'" \o edit.field \o "'")
       /\ Contains(errors[1], "Engine " \o ExportEngineIds[edit.engine] \o " Group "
                                  \o Decimal(edit.group) \o " " \o edit.name \o ":")

\* C4: a logic named "Power" is never reported for an absent start_level or
\* last_lot and has no StartLevel/LastLot key expected; a logic of any other
\* canonical name is reported once for each of the two that is absent, and
\* has both keys expected
ConditionalFieldBranching ==
    /\ (called = "validate_json_structure" /\ raised = "") =>
         \A p \in LogicPositions :
           LET logic == LogicAt(data, p[1], p[2], p[3])
               name == DictGet(logic, "logic_name", None)
           IN  \A field \in {"start_level", "last_lot"} :
                 /\ name = PyS("Power") => Reports(PathAt(p), field) = 0
                 /\ (name.t = "str" /\ name.v \in NonPowerLogics) =>
                      Reports(PathAt(p), field) =
                          IF field \in DOMAIN logic THEN 0 ELSE 1
    /\ called = "generate_expected_set_keys" =>
         LET starts == {k \in Range(expected.keys) : Contains(k, "StartLevel")}
             lasts == {k \in Range(expected.keys) : Contains(k, "LastLot")}
         IN  /\ expected.logic_name = "Power" => starts = {} /\ lasts = {}
             /\ expected.logic_name \in NonPowerLogics =>
                  Cardinality(starts) = 1 /\ Cardinality(lasts) = 1

\* a non-Power logic without start_level and last_lot was validated and
\* reported for both
ConditionalFieldBranchingWitness ==
    /\ called = "validate_json_structure" /\ raised = ""
    /\ \E p \in LogicPositions :
         LET logic == LogicAt(data, p[1], p[2], p[3])
         IN  /\ DictGet(logic, "logic_name", None) = PyS("Stopper")
             /\ {"start_level", "last_lot"} \cap DOMAIN logic = {}
             /\ Reports(PathAt(p), "start_level") = 1
             /\ Reports(PathAt(p), "last_lot") = 1

\* C5: a logic of a group whose group_number is 1 is reported once for each
\* of trigger_type, trigger_bars and trigger_minutes that is absent, and a
\* logic of a group with a greater number is never reported for them
GroupOneTriggerRequirement ==
    (called = "validate_json_structure" /\ raised = "") =>
      \A p \in LogicPositions :
        LET logic == LogicAt(data, p[1], p[2], p[3])
            g_num == DictGet(data["engines"][p[1]]["groups"][p[2]], "group_number", None)
        IN  \A field \in TriggerFields :
              /\ g_num = PyI(1) =>
                   Reports(PathAt(p), field) = IF field \in DOMAIN logic THEN 0 ELSE 1
              /\ g_num # PyI(1) => Reports(PathAt(p), field) = 0

\* a group-1 logic without any trigger field was validated and reported for
\* the three
GroupOneTriggerRequirementWitness ==
    /\ called = "validate_json_structure" /\ raised = ""
    /\ \E p \in LogicPositions :
         LET logic == LogicAt(data, p[1], p[2], p[3])
         IN  /\ DictGet(data["engines"][p[1]]["groups"][p[2]], "group_number", None)
                    = PyI(1)
             /\ TriggerFields \cap DOMAIN logic = {}
             /\ \A field \in TriggerFields : Reports(PathAt(p), field) = 1

\* C6: generate_expected_set_keys("B", 3, "Stopper") holds
\* gInput_TrailStep_BST3, gInput_G3_BST_ReverseEnabled and gInput_Grid_BST3
\* and no gInput_G3_TriggerType_ key, and for no group other than 1 is a
\* TriggerType, TriggerBars or TriggerMinutes key expected
ConcreteExpectedKeys ==
    called = "generate_expected_set_keys" =>
      /\ (expected.engine_id = "B" /\ expected.group = 3
            /\ expected.logic_name = "Stopper") =>
           /\ {"gInput_TrailStep_BST3", "gInput_G3_BST_ReverseEnabled",
               "gInput_Grid_BST3"} \subseteq Range(expected.keys)
           /\ \A k \in Range(expected.keys) : ~Contains(k, "gInput_G3_TriggerType_")
      /\ expected.group # 1 =>
           \A k \in Range(expected.keys) :
             /\ ~Contains(k, "TriggerType")
             /\ ~Contains(k, "TriggerBars")
             /\ ~Contains(k, "TriggerMinutes")

\* the keys of ("B", 3, "Stopper") were generated
ConcreteExpectedKeysWitness ==
    /\ called = "generate_expected_set_keys"
    /\ expected.engine_id = "B" /\ expected.group = 3
    /\ expected.logic_name = "Stopper"
    /\ "gInput_Grid_BST3" \in Range(expected.keys)

\* the entries the lines of the file give, line by line (<< >> for a line
\* that gives none)
FileEntries == [i \in 1..Len(file.lines) |-> ParseLine(file.lines[i])]

\* the index of the last line that gives the key
LastLineOf(key) ==
    CHOOSE i \in 1..Len(file.lines) :
      /\ FileEntries[i] # << >> /\ FileEntries[i][1] = key
      /\ \A j \in (i + 1)..Len(file.lines) :
           FileEntries[j] = << >> \/ FileEntries[j][1] # key

\* C7: parse_set_file maps every key of the file to the value of the last
\* line that gives it, and holds no other key; gInput_MaxOrders=100 followed
\* by gInput_MaxOrders=150 decodes to 150
LastWriteWins ==
    (called = "parse_set_file" /\ file.readable) =>
      LET given == {i \in 1..Len(file.lines) : FileEntries[i] # << >>}
      IN  /\ DOMAIN set_values = {FileEntries[i][1] : i \in given}
          /\ \A i \in given :
               set_values[FileEntries[i][1]] = FileEntries[LastLineOf(FileEntries[i][1])][2]
          /\ file.lines = << "gInput_MaxOrders=100", "gInput_MaxOrders=150" >> =>
               set_values = [k \in {"gInput_MaxOrders"} |-> "150"]

\* a file that gives one key twice, with two values, was decoded
LastWriteWinsWitness ==
    /\ called = "parse_set_file"
    /\ file.lines = << "gInput_MaxOrders=100", "gInput_MaxOrders=150" >>
    /\ set_values["gInput_MaxOrders"] = "150"

AllLogicKeys == CrossKeys(CanonicalEngines, 20)
AllGroupKeys == UNION {Range(generate_group_level_keys(g)) : g \in 1..20}

\* C8: on a non-empty mapping, the errors of validate_set_file_parity are one
\* report for each key of the cross-product of 3 engines, 20 groups and 7
\* logics, and for each group-level key of the 20 groups, that the mapping
\* lacks, and nothing else: they are fixed by the keys the mapping holds
ParityCompleteness ==
    (called = "validate_set_file_parity" /\ DOMAIN set_values # {}) =>
      Range(errors) =
          {"Missing logic key: " \o k : k \in AllLogicKeys \ DOMAIN set_values}
          \cup {"Missing group key: " \o k : k \in AllGroupKeys \ DOMAIN set_values}

\* a mapping that holds one expected logic key and one expected group key
\* and lacks the others was validated
ParityCompletenessWitness ==
    /\ called = "validate_set_file_parity"
    /\ DOMAIN set_values = {"gInput_Grid_BST3", "gInput_Group1_ReverseMode"}
    /\ "Missing logic key: gInput_Grid_BST3" \notin Range(errors)
    /\ "Missing group key: gInput_Group1_ReverseMode" \notin Range(errors)
    /\ "Missing logic key: gInput_Mult_BST3" \in Range(errors)
    /\ "Missing group key: gInput_Group20_EntryDelayBars" \in Range(errors)

\* C9: validate_json_structure returns for every document, and its errors
\* name every required field that any logic of the document lacks
NeverAbortsEarly ==
    called = "validate_json_structure" =>
      /\ raised = ""
      /\ \A p \in LogicPositions :
           \A field \in Range(REQUIRED_LOGIC_FIELDS) :
             field \notin DOMAIN LogicAt(data, p[1], p[2], p[3]) =>
               \E i \in 1..Len(errors) : Contains(errors[i], "'" \o field \o "'")

\* C10, as stated: parse_set_file on a file that cannot be opened fails with
\* IOError
DecoderFailsWithIOError ==
    (called = "parse_set_file" /\ ~file.readable) => raised = "IOError"

\* C10, amended: parse_set_file on a file that cannot be opened raises
\* nothing and returns the empty mapping
DecoderReturnsEmptyMapping ==
    (called = "parse_set_file" /\ ~file.readable) =>
        raised = "" /\ set_values = EmptyDict

\* a file that cannot be opened was decoded
DecoderReturnsEmptyMappingWitness ==
    /\ called = "parse_set_file"
    /\ ~file.readable
    /\ DOMAIN set_values = {}

\* C11: the structure check and the parity check exit with status 0 when the
\* errors list of the validation is empty and with status 1 otherwise,
\* whatever the warnings list holds; no command exits with status 0 after
\* an error or an exception
ExitStatusFollowsErrors ==
    /\ (called = "validate_export" /\ raised = "" /\ edit.kind # "unreadable") =>
         exit_status = << IF errors = << >> THEN 0 ELSE 1 >>
    /\ (called = "validate_set_parity" /\ raised = "") =>
         exit_status = << IF errors = << >> THEN 0 ELSE 1 >>
    /\ exit_status = << 0 >> => raised = "" /\ errors = << >>

\* the structure check exited with status 0 on a document that has warnings
\* and no error
ExitStatusFollowsErrorsWitness ==
    /\ called = "validate_export"
    /\ errors = << >> /\ warnings # << >>
    /\ exit_status = << 0 >>

\* the engine_id values of the engines of the document
EngineIdsOf(d) ==
    LET engines == DictGet(d, "engines", << >>)
    IN  {PyStr(DictGet(engines[i], "engine_id", None)) : i \in 1..Len(engines)}

\* a warning that is no count of groups or of logics
IsIdentityWarning(w) == ~Contains(w, "(expected ")

\* C12: when the engine identifiers of the document are not exactly A, B
\* and C (one is unexpected, one is missing, or there is no engine),
\* validate_json_structure returns a warning about it and no error for it
EngineSetDeviationWarns ==
    (called = "validate_json_structure" /\ raised = ""
        /\ EngineIdsOf(data) # CanonicalEngines) =>
      /\ \E i \in 1..Len(warnings) : IsIdentityWarning(warnings[i])
      /\ \A i \in 1..Len(errors) : ~Contains(errors[i], "engines")

\* how many warnings hold both texts
WarningsWith(a, b) ==
    Cardinality({i \in 1..Len(warnings) :
                   Contains(warnings[i], a) /\ Contains(warnings[i], b)})

\* C13: an engine whose number of groups is not 20 and a group whose number
\* of logics is not 7 each get one warning that names them; a document that
\* differs from the export by such a count only gets no error; and the
\* logics that are present are still checked
CardinalityMismatchIsSoft ==
    (called = "validate_json_structure" /\ raised = "") =>
      LET engines == DictGet(data, "engines", << >>)
      IN  /\ \A e \in 1..Len(engines) :
                LET id == PyStr(DictGet(engines[e], "engine_id", None))
                    groups == DictGet(engines[e], "groups", << >>)
                IN  /\ Len(groups) # 20 =>
                          WarningsWith("Engine " \o id \o " has ",
                                       Decimal(Len(groups)) \o " groups") >= 1
                    /\ \A g \in 1..Len(groups) :
                          LET n == Len(DictGet(groups[g], "logics", << >>))
                              num == PyStr(DictGet(groups[g], "group_number", None))
                          IN  n # 7 =>
                                WarningsWith("Engine " \o id \o " Group " \o num \o " has ",
                                             Decimal(n) \o " logics") >= 1
          /\ edit.kind \in {"groups", "logics"} => errors = << >>
          /\ (edit.kind = "load" /\ edit.name # "Power"
                /\ "last_lot" \notin DOMAIN LogicAt(data, 1, 1, 1)) =>
                Reports(PathAt(<<1, 1, 1>>), "last_lot") = 1

\* a hand-written document with one group of one logic was validated: both
\* counts were warned about and the logic was still checked
CardinalityMismatchIsSoftWitness ==
    /\ called = "validate_json_structure" /\ raised = ""
    /\ edit.kind = "load"
    /\ Len(warnings) = 2
    /\ Reports(PathAt(<<1, 1, 1>>), "last_lot") = 1

\* the group-level required fields
GroupLevelFields ==
    {"group_number", "enabled", "reverse_mode", "hedge_mode", "hedge_reference",
     "entry_delay_bars", "logics"}

\* the path of the group at engines[e].groups[g], as the errors write it
GroupPathAt(e, g) ==
    LET engine == data["engines"][e]
        group == engine["groups"][g]
    IN  "Engine " \o PyStr(DictGet(engine, "engine_id", None)) \o " Group "
            \o PyStr(DictGet(group, "group_number", None)) \o ":"

\* C14: for every group of every engine and every group-level required
\* field, validate_json_structure returns one error that names the group
\* and the field when the group lacks the field, and none when it holds it
GroupFieldsChecked ==
    (called = "validate_json_structure" /\ raised = "") =>
      LET engines == DictGet(data, "engines", << >>)
      IN  \A e \in 1..Len(engines) :
            \A g \in 1..Len(DictGet(engines[e], "groups", << >>)) :
              \A field \in GroupLevelFields :
                Reports(GroupPathAt(e, g), field) =
                    IF field \in DOMAIN engines[e]["groups"][g] THEN 0 ELSE 1

\* a group without its entry_delay_bars was validated and reported once
GroupFieldsCheckedWitness ==
    /\ called = "validate_json_structure" /\ raised = ""
    /\ edit.kind = "remove_group" /\ edit.field = "entry_delay_bars"
    /\ Reports(GroupPathAt(edit.engine, edit.group), "entry_delay_bars") = 1
    /\ Len(errors) = 1

HasPrefix(s, p) == Len(s) >= Len(p) /\ SubSeq(s, 1, Len(p)) = p
HasSuffix(s, p) == Len(s) >= Len(p) /\ SubSeq(s, Len(s) - Len(p) + 1, Len(s)) = p

\* C15, as documented: every error of validate_json_structure reads
\* "<entity-path>: Missing field '<name>'" and every error of
\* validate_set_file_parity reads "Missing key: <flat-key>"
ReportFormsAsDocumented ==
    /\ called = "validate_json_structure" =>
         \A i \in 1..Len(errors) :
           Contains(errors[i], ": Missing field '") /\ HasSuffix(errors[i], "'")
    /\ called = "validate_set_file_parity" =>
         \A i \in 1..Len(errors) : HasPrefix(errors[i], "Missing key: ")

\* C15, as the code writes the report: an error of validate_json_structure
\* is "No engines found in config" or an entity path that starts with
\* "Engine ", followed by ": Missing field '<name>'", ": Missing group field
\* '<name>'", ": Missing '<name>'" or ": Missing '<name>' (non-Power)"; an
\* error of validate_set_file_parity is "Missing group key: <flat-key>",
\* "Missing logic key: <flat-key>" or "Failed to parse .set file: <path>"
ReportFormsOfTheCode ==
    /\ called = "validate_json_structure" =>
         \A i \in 1..Len(errors) :
           \/ errors[i] = "No engines found in config"
           \/ /\ HasPrefix(errors[i], "Engine ")
              /\ \/ Contains(errors[i], ": Missing field '")
                 \/ Contains(errors[i], ": Missing group field '")
                 \/ Contains(errors[i], ": Missing '")
              /\ \/ HasSuffix(errors[i], "'")
                 \/ HasSuffix(errors[i], "' (non-Power)")
    /\ called = "validate_set_file_parity" =>
         \A i \in 1..Len(errors) :
           \/ HasPrefix(errors[i], "Missing group key: gInput_")
           \/ HasPrefix(errors[i], "Missing logic key: gInput_")
           \/ errors[i] = "Failed to parse .set file: " \o file.file_path

\* the parity check of a file that holds some expected keys and lacks others
\* reported keys of groups and keys of logics
ReportFormsOfTheCodeWitness ==
    /\ called = "validate_set_file_parity" /\ raised = ""
    /\ DOMAIN set_values # {}
    /\ \E i \in 1..Len(errors) : HasPrefix(errors[i], "Missing group key: ")
    /\ \E i \in 1..Len(errors) : HasPrefix(errors[i], "Missing logic key: ")

\* the text s without the whitespace around it, as a set of one text: the
\* part of s from its first to its last character that is no whitespace
Trimmed(s) ==
    LET solid == {i \in 1..Len(s) : CharAt(s, i) \notin {" ", "\t"}}
    IN  IF solid = {} THEN {""}
        ELSE {SubSeq(s, a, b) :
                a \in {i \in solid : \A j \in solid : i <= j},
                b \in {i \in solid : \A j \in solid : i >= j}}

\* the positions of the first = of a line
FirstEquals(line) ==
    {p \in 1..Len(line) :
       CharAt(line, p) = "=" /\ \A q \in 1..(p - 1) : CharAt(line, q) # "="}

\* the entries the line rule gives for one raw line: none for a line that is
\* empty once trimmed, begins with ; or holds no =
LineEntries(raw) ==
    UNION {UNION {Trimmed(SubSeq(line, 1, p - 1))
                    \X Trimmed(SubSeq(line, p + 1, Len(line))) :
                  p \in FirstEquals(line)} :
           line \in {l \in Trimmed(raw) : l # "" /\ CharAt(l, 1) # ";"}}

\* C16: the mapping parse_set_file returns holds exactly the keys the line
\* rule gives for the lines of the file, each with a value the rule gives
\* for it: a line is trimmed, skipped when empty or a ; comment, skipped
\* without an error when it holds no =, and otherwise split at its first =
\* into a trimmed key and a trimmed value
DecoderLineRule ==
    (called = "parse_set_file" /\ file.readable) =>
      LET given == UNION {LineEntries(file.lines[i]) : i \in 1..Len(file.lines)}
      IN  /\ raised = ""
          /\ DOMAIN set_values = {e[1] : e \in given}
          /\ \A k \in DOMAIN set_values : << k, set_values[k] >> \in given
          /\ file.lines = << "  gInput_Grid_BST3 = 1=2  " >> =>
               set_values = [k \in {"gInput_Grid_BST3"} |-> "1=2"]
          /\ file.lines \in {<< "" >>, << "; gInput_Mult_P1=1.2" >>,
                             << "no equals sign" >>} =>
               DOMAIN set_values = {}

\* a file of a line without = and a padded line with two = was decoded
DecoderLineRuleWitness ==
    /\ called = "parse_set_file" /\ raised = ""
    /\ file.lines = << "no equals sign", "  gInput_Grid_BST3 = 1=2  " >>
    /\ DOMAIN set_values = {"gInput_Grid_BST3"}
    /\ set_values["gInput_Grid_BST3"] = "1=2"

\* C17: the abbreviation tables of the two generators, LOGIC_SUFFIX and
\* logic_suffix_map, name the same logics as LOGIC_ABBREVIATIONS, and the
\* keys the validator expects for a logic carry the abbreviation each
\* generator table gives that logic
NamingTablesAgree ==
    called = "generate_expected_set_keys" =>
         LET name == expected.logic_name
             prefix == IF expected.engine_id = "A" THEN "" ELSE expected.engine_id
         IN  \A table \in {LOGIC_SUFFIX, logic_suffix_map} :
               /\ DOMAIN table = DOMAIN LOGIC_ABBREVIATIONS
               /\ name \in DOMAIN table
               /\ ("gInput_Grid_" \o prefix \o table[name] \o Decimal(expected.group))
                      \in Range(expected.keys)

\* the suffix and the short name of the last generate_expected_set_keys call:
\* engine prefix (none for A), abbreviation of the logic, and for the suffix
\* the group number
ExpectedShort ==
    (IF expected.engine_id = "A" THEN "" ELSE expected.engine_id)
        \o LOGIC_ABBREVIATIONS[expected.logic_name]
ExpectedSuffix == ExpectedShort \o Decimal(expected.group)

\* gInput_<FieldName>_<suffix>
SuffixForm(k) ==
    HasPrefix(k, "gInput_") /\ HasSuffix(k, "_" \o ExpectedSuffix)

\* the <FieldName> of a key of that form
SuffixFormField(k) == SubSeq(k, 8, Len(k) - Len(ExpectedSuffix) - 1)

\* gInput_G<group>_<FieldName>_<short name>
GroupForm(k) ==
    /\ HasPrefix(k, "gInput_G" \o Decimal(expected.group) \o "_")
    /\ HasSuffix(k, "_" \o ExpectedShort)

\* the <FieldName> of a key of that form
GroupFormField(k) ==
    SubSeq(k, 10 + Len(Decimal(expected.group)), Len(k) - Len(ExpectedShort) - 1)

\* whether the text names a TP/SL or a Reverse/Hedge field
NamesException(f) ==
    \/ Contains(f, "TP") \/ Contains(f, "SL")
    \/ Contains(f, "Reverse") \/ Contains(f, "Hedge")

\* C18, as documented: every expected key is gInput_<FieldName>_<suffix> or
\* gInput_G<group>_<FieldName>_<short name>; the TP/SL and the Reverse/Hedge
\* fields have the second form and every other field the first
DualNamingAsDocumented ==
    called = "generate_expected_set_keys" =>
      \A i \in 1..Len(expected.keys) :
        LET k == expected.keys[i]
        IN  \/ GroupForm(k) /\ NamesException(GroupFormField(k))
            \/ ~GroupForm(k) /\ SuffixForm(k) /\ ~NamesException(SuffixFormField(k))

\* a key that starts with gInput_G<group>_ and holds the short name as its
\* last part or as a part in the middle
GroupQualified(k) ==
    /\ HasPrefix(k, "gInput_G" \o Decimal(expected.group) \o "_")
    /\ \/ HasSuffix(k, "_" \o ExpectedShort)
       \/ Contains(k, "_" \o ExpectedShort \o "_")

\* C18, as the code names the keys: a key that names a TP/SL, a
\* Reverse/Hedge or a group-1 Trigger field is group-qualified (it starts
\* with gInput_G<group>_ and holds the short name, last or in the middle);
\* every other key is gInput_<FieldName>_<suffix>, but for
\* gInput_<suffix>_OrderCountReference
DualNamingOfTheCode ==
    called = "generate_expected_set_keys" =>
      \A i \in 1..Len(expected.keys) :
        LET k == expected.keys[i]
        IN  IF NamesException(SubSeq(k, 8, Len(k))) \/ Contains(k, "Trigger")
            THEN GroupQualified(k) /\ ~SuffixForm(k)
            ELSE /\ ~GroupQualified(k)
                 /\ \/ SuffixForm(k)
                    \/ k = "gInput_" \o ExpectedSuffix \o "_OrderCountReference"

\* the keys of Stopper in group 1 of engine B were generated
DualNamingOfTheCodeWitness ==
    /\ called = "generate_expected_set_keys"
    /\ expected.engine_id = "B" /\ expected.group = 1
    /\ expected.logic_name = "Stopper"
    /\ "gInput_G1_TriggerType_BST" \in Range(expected.keys)
    /\ "gInput_BST1_OrderCountReference" \in Range(expected.keys)
    /\ "gInput_G1_Scale_BST_Reverse" \in Range(expected.keys)

\* the prefix of the keys of one logic and direction in the generated file
MassivePrefix(g, e, l, d) ==
    "gInput_" \o Decimal(g) \o "_" \o ENGINES[e] \o LOGIC_SUFFIX[LOGICS[l]]
        \o "_" \o DIRECTIONS[d]

\* the extension-array keys of one logic and direction: 5 for each of the
\* trail steps 2..7 and 8 for each of the partial closes 1..4
ExtensionKeys(prefix) ==
    {prefix \o "_" \o f \o Decimal(step) :
       f \in {"TrailStep", "TrailStepMethod", "TrailStepMode", "TrailStepCycle",
              "TrailStepBalance"},
       step \in 2..7}
    \cup {prefix \o "_" \o f \o Decimal(partial) :
            f \in {"PartialEnabled", "PartialCycle", "PartialMode", "PartialBalance",
                   "PartialTrailMode", "PartialTrigger", "PartialProfitThreshold",
                   "PartialHours"},
            partial \in 1..4}

\* the keys of the mapping that name a group-level field
GroupLevelKeysIn(values) ==
    {k \in DOMAIN values :
       \/ Contains(k, "ReverseMode") \/ Contains(k, "HedgeMode")
       \/ Contains(k, "EntryDelay")}

\* C19: the file generate_massive_setfile writes holds, for every engine,
\* every group 1..GROUPS, every logic and direction, the keys of the logic
\* with its extension arrays, and for every group its group-level keys
\* (reverse mode, hedge mode, hedge reference, entry delay bars)
MassiveFileCoversCrossProduct ==
    (called = "parse_set_file" /\ file.file_path = MassivePath) =>
      /\ \A g \in 1..GROUPS, e \in 1..Len(ENGINES), l \in 1..Len(LOGICS),
            d \in 1..Len(DIRECTIONS) :
           /\ (MassivePrefix(g, e, l, d) \o "_Grid") \in DOMAIN set_values
           /\ ExtensionKeys(MassivePrefix(g, e, l, d)) \subseteq DOMAIN set_values
      /\ \A g \in 1..GROUPS :
           \E k \in GroupLevelKeysIn(set_values) : Contains(k, Decimal(g))

\* C20: the step that runs validate_json_structure leaves the document as it
\* was, and the step that runs validate_set_file_parity leaves the file as it
\* was and the mapping as parse_set_file decoded it
ValidatorsNeverMutate ==
    [][/\ (called = "none" /\ called' = "validate_json_structure") => data' = data
       /\ (called = "none" /\ called' = "validate_set_file_parity") =>
            /\ file' = file
            /\ set_values' = parse_set_file(file).values]_vars

\* a document with an unexpected engine id and a document that lacks a field
\* of a logic are as malformed after the validation as before
ValidatorsNeverMutateWitness ==
    /\ called = "validate_json_structure" /\ raised = ""
    /\ \/ /\ edit.kind = "engine_id"
          /\ warnings # << >>
          /\ Len(data["engines"]) = Len(ExportEngineIds)
          /\ PyStr(data["engines"][edit.engine]["engine_id"]) = edit.name
       \/ /\ edit.kind = "remove"
          /\ errors # << >>
          /\ edit.field \notin DOMAIN LogicAt(data, edit.engine, edit.group, edit.logic)

\* C21: two calls of generate_logic_inputs of one generator version with the
\* same group, engine, logic and direction return the same list, whatever
\* was called between them
EncoderIsPure ==
    \A i, j \in 1..Len(calls) :
      (calls[i].version = calls[j].version /\ calls[i].args = calls[j].args) =>
        calls[i].inputs = calls[j].inputs

\* the abbreviation the table of the specification gives a logic
AbbrevOf(name) ==
    CASE name = "Power" -> "P" [] name = "Repower" -> "R" [] name = "Scalper" -> "S"
      [] name = "Stopper" -> "ST" [] name = "STO" -> "STO" [] name = "SCA" -> "SCA"
      [] name = "RPO" -> "RPO"

\* the prefix it gives an engine
PrefixOf(engine) == CASE engine = "A" -> "" [] engine = "B" -> "B" [] engine = "C" -> "C"

\* C22: for every engine, group and canonical logic, the suffix that
\* generate_expected_set_keys gets from get_suffix is engine prefix, logic
\* abbreviation and the group in decimal, and the short name it gets from
\* get_short is engine prefix and logic abbreviation: BST3 and BST for
\* Stopper in group 3 of engine B, P12 and P for Power in group 12 of A
SuffixAndShort ==
    called = "generate_expected_set_keys" =>
      /\ expected.short = PrefixOf(expected.engine_id) \o AbbrevOf(expected.logic_name)
      /\ expected.suffix = expected.short \o Decimal(expected.group)
      /\ (expected.engine_id = "B" /\ expected.group = 3
            /\ expected.logic_name = "Stopper") =>
           expected.suffix = "BST3" /\ expected.short = "BST"
      /\ (expected.engine_id = "A" /\ expected.group = 12
            /\ expected.logic_name = "Power") =>
           expected.suffix = "P12" /\ expected.short = "P"

\* the suffix of SCA in group 20 of engine C was computed
SuffixAndShortWitness ==
    /\ called = "generate_expected_set_keys"
    /\ expected.engine_id = "C" /\ expected.group = 20 /\ expected.logic_name = "SCA"
    /\ expected.suffix = "CSCA20" /\ expected.short = "CSCA"

\* C23: the document generate_full_export builds has the engines A, B and C,
\* once each; in every engine the groups are numbered 1 to 20 in ascending
\* order; every group holds the 7 logics Power, Repower, Scalper, Stopper,
\* STO, SCA, RPO in this order; and validate_json_structure returns no error
\* and no warning on it
ExportSatisfiesDataModel ==
    (called = "validate_json_structure" /\ edit.kind = "none") =>
      LET engines == data["engines"]
      IN  /\ [e \in 1..Len(engines) |-> engines[e]["engine_id"]]
                = << PyS("A"), PyS("B"), PyS("C") >>
          /\ \A e \in 1..Len(engines) :
               LET groups == engines[e]["groups"]
               IN  /\ [g \in 1..Len(groups) |-> groups[g]["group_number"]]
                         = [g \in 1..20 |-> PyI(g)]
                   /\ \A g \in 1..Len(groups) :
                        [l \in 1..Len(groups[g]["logics"]) |->
                           groups[g]["logics"][l]["logic_name"]]
                          = << PyS("Power"), PyS("Repower"), PyS("Scalper"),
                               PyS("Stopper"), PyS("STO"), PyS("SCA"), PyS("RPO") >>
          /\ raised = "" /\ errors = << >> /\ warnings = << >>

\* the export was validated as generated
ExportSatisfiesDataModelWitness ==
    /\ called = "validate_json_structure" /\ edit.kind = "none"
    /\ Len(data["engines"]) = 3
    /\ Len(data["engines"][3]["groups"][20]["logics"]) = 7
    /\ errors = << >> /\ warnings = << >>

\* the lines of the file that are inputs of a logic: their key starts with
\* gInput_ and the number of a group
LogicInputLines ==
    {i \in 1..Len(file.lines) :
       /\ HasPrefix(file.lines[i], "gInput_")
       /\ CharAt(file.lines[i], 8) \in {"0", "1", "2", "3", "4", "5", "6", "7", "8", "9"}}

\* the lines of the file that are global inputs
GlobalInputLines ==
    {i \in 1..Len(file.lines) : HasPrefix(file.lines[i], "gInput_")} \ LogicInputLines

\* C24: the file generate_massive_setfile writes holds 88 inputs for each of
\* the GROUPS x 3 x 7 x 2 logic-directions, the number its header states as
\* Total Logic Inputs, and its footer states that number plus the number of
\* global inputs as Total Inputs Generated
EightyEightInputsPerLogic ==
    file.file_path = MassivePath =>
      LET n == Cardinality(LogicInputLines)
      IN  /\ n = GROUPS * 3 * 7 * 2 * 88
          /\ ("; Total Logic Inputs: " \o Decimal(n)) \in Range(file.lines)
          /\ ("; Total Inputs Generated: "
                \o Decimal(n + Cardinality(GlobalInputLines))) \in Range(file.lines)

\* the file holds the lines L written in the encoding
WrittenAs(L, encoding) ==
    file.file_path = "encoded.set" /\ file.content = Encode(L, encoding)

\* C25: a file that starts with the mark FF FE is decoded as UTF-16
\* little-endian without the mark and any other file as UTF-8, so that the
\* lines of a text written as UTF-16 with the mark and the same lines written
\* as UTF-8 give the same mapping, the one of the lines, and no key holds
\* the mark
EncodingsAreEquivalent ==
    called = "parse_set_file" =>
      \A L \in SeqsUpTo(LinePool, MaxLines) :
        \A encoding \in {"utf-8", "utf-16"} :
          WrittenAs(L, encoding) =>
            /\ \A other \in {"utf-8", "utf-16"} :
                 set_values = parse_set_file([file EXCEPT !.content = Encode(L, other)]).values
            /\ set_values = ParseLines(L)
            /\ \A key \in DOMAIN set_values : ~Contains(key, "\\ufeff")

EncodingsAreEquivalentWitness ==
    /\ called = "parse_set_file"
    /\ WrittenAs(<< "gInput_MaxOrders=100", "  gInput_Grid_BST3 = 1=2  " >>, "utf-16")
    /\ file.content[1] = 255 /\ file.content[2] = 254
    /\ set_values = [k \in {"gInput_MaxOrders", "gInput_Grid_BST3"} |->
                       IF k = "gInput_MaxOrders" THEN "100" ELSE "1=2"]

\* the triples validate_set_file_parity asks the expected keys of
ExpectedTriples ==
    Range(ExportEngineIds) \X (1..ExportGroupCount) \X Range(ExportLogicNames)

\* the keys generate_expected_set_keys lists for each triple
ExpectedKeysOf ==
    [t \in ExpectedTriples |-> Range(generate_expected_set_keys(t[1], t[2], t[3]))]

\* the keys generate_group_level_keys lists for the groups 1..20
AllGroupLevelKeys ==
    UNION {Range(generate_group_level_keys(g)) : g \in 1..ExportGroupCount}

\* C26: the list generate_expected_set_keys returns for a triple of
\* {A,B,C} x {1..20} x the seven logics names no key twice, shares no key
\* with the list of another triple, and holds no group-level key
ExpectedKeysUnambiguous ==
    called = "generate_expected_set_keys" =>
      LET this == << expected.engine_id, expected.group, expected.logic_name >>
          keys == Range(expected.keys)
      IN  /\ Cardinality(keys) = Len(expected.keys)
          /\ \A t \in ExpectedTriples \ {this} : ExpectedKeysOf[t] \cap keys = {}
          /\ keys \cap AllGroupLevelKeys = {}

ExpectedKeysUnambiguousWitness ==
    /\ called = "generate_expected_set_keys"
    /\ expected.engine_id = "B" /\ expected.group = 20 /\ expected.logic_name = "Stopper"
    /\ Len(expected.keys) = 33
    /\ \E i \in 1..Len(expected.keys) : HasSuffix(expected.keys[i], "_BST20")
    /\ Cardinality(AllGroupLevelKeys) = 4 * ExportGroupCount

\* every key validate_set_file_parity looks for
AllExpectedKeys == AllGroupLevelKeys \cup UNION {ExpectedKeysOf[t] : t \in ExpectedTriples}

\* C27: validate_set_file_parity reports an expected key that the decoded
\* mapping lacks exactly once: no entry of errors occurs twice, and errors
\* has as many entries as there are distinct expected keys missing
EachMissingKeyReportedOnce ==
    (called = "validate_set_file_parity" /\ DOMAIN set_values # {}) =>
      /\ \A i, j \in 1..Len(errors) : errors[i] = errors[j] => i = j
      /\ Len(errors) = Cardinality(AllExpectedKeys \ DOMAIN set_values)

\* C28: when the decoder gives validate_set_file_parity an empty mapping,
\* because the file cannot be read, because its bytes cannot be decoded, or
\* because no line of its text is a key=value line, the result is the one
\* error 'Failed to parse .set file: <path>' and no warning; and a file whose
\* bytes cannot be decoded leaves the mapping empty even when the bytes
\* before the fault are key=value lines
EmptyMappingIsOneError ==
    /\ (called = "validate_set_file_parity" /\ DOMAIN set_values = {}) =>
         /\ errors = << "Failed to parse .set file: " \o file.file_path >>
         /\ warnings = << >>
         /\ raised = ""
    /\ (called \in {"parse_set_file", "validate_set_file_parity"}
          /\ (~file.readable \/ file.content \in BytePool
                \/ \A i \in 1..Len(DecodeFile(file).lines) :
                     ParseLine(DecodeFile(file).lines[i]) = << >>)) =>
         /\ set_values = EmptyDict
         /\ raised = ""

\* a file whose first line is A=1 and whose last byte starts no UTF-8
\* sequence has been validated
EmptyMappingIsOneErrorWitness ==
    /\ called = "validate_set_file_parity"
    /\ file.content = << 65, 61, 49, 10, 255 >>
    /\ Decode(SubSeq(file.content, 1, 4)).lines = << "A=1" >>
    /\ Decode(file.content).raised = "UnicodeDecodeError"
    /\ set_values = EmptyDict
    /\ errors = << "Failed to parse .set file: bytes.set" >>

\* the lines of the file that parse_set_file stores an entry for
KeyValueLines == {i \in 1..Len(file.lines) : ParseLine(file.lines[i]) # << >>}

\* C29: no key stands on two key=value lines of the text
\* generate_massive_setfile returns, so that the mapping decoded from the
\* file has one entry for each of these lines, as many as the footer of the
\* file states as Total Inputs Generated
MassiveFileDecodesWithoutLoss ==
    (called = "parse_set_file" /\ file.file_path = MassivePath) =>
      /\ Cardinality(DOMAIN set_values) = Cardinality(KeyValueLines)
      /\ ("; Total Inputs Generated: " \o Decimal(Cardinality(DOMAIN set_values)))
           \in Range(file.lines)

MassiveFileDecodesWithoutLossWitness ==
    /\ called = "parse_set_file" /\ file.file_path = MassivePath
    /\ Cardinality(DOMAIN set_values) = 69348
    /\ DictGet(set_values, "gInput_15_CX_Sell_PartialHours4", "") = "0"
    /\ DictGet(set_values, "gInput_MagicNumberSell", "") = "888"

\* the object the code of the last generate_logic_export call writes, as
\* validate_json_structure finds it in the document: its fields, logic_name
\* with the name, every other field with the input its value is read from
ExportedLogic ==
    LET fields == logic_export.code.fields
    IN  [name \in {fields[i][1] : i \in 1..Len(fields)} |->
           PyS(fields[CHOOSE i \in 1..Len(fields) : fields[i][1] = name][2])]

\* C30: the object generate_logic_export writes for a logic of an engine and
\* a group 1..20 has every field validate_json_structure requires of a
\* logic: the REQUIRED_LOGIC_FIELDS, start_level and last_lot when its
\* logic_name is not Power, the three trigger fields when the group is 1
ExporterMeetsLogicSchema ==
    logic_export.engine_id # "" =>
      LogicErrors(PyS(logic_export.engine_id), PyI(logic_export.group), ExportedLogic)
        = << >>

====
